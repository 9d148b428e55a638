------------------------- MODULE TriggerOutputProofs -------------------------
(***************************************************************************)
(* What the automatic trigger leaves pressed and masked, for any profiles, *)
(* times and failures of the device.                                       *)
(***************************************************************************)
EXTENDS TriggerOutput, TLAPS

States == [fsm : Triggers, scope : Scopes, stop : Stops, tapped : BOOLEAN,
           last : Nat, second : BOOLEAN, flash : 0..2,
           dev : [left : BOOLEAN, right : BOOLEAN, mask : 0..MaskSpan],
           doubt : SUBSET {"left", "right", "mask"}, switch : 0..5,
           fault : Faults, took : BOOLEAN, press : {"none", "done", "failed"}]

(* What the device certainly has.                                          *)
LeftDown(s)  == s.dev.left /\ "left" \notin s.doubt
RightDown(s) == s.dev.right /\ "right" \notin s.doubt
MaskOn(s)    == s.dev.mask > 0 /\ "mask" \notin s.doubt

(* Who answers for it.                                                     *)
Holding(s) == s.scope.pending \/ (s.scope.engaged /\ s.scope.mode = 2)
LeftOwned(s)  == LeftDown(s) => Pressed(s.fsm)
RightOwned(s) == RightDown(s) => Holding(s)
MaskOwned(s)  == MaskOn(s) => Active(s)
Owned(s) == LeftOwned(s) /\ RightOwned(s) /\ MaskOwned(s)

(* What one kind of command leaves alone.                                  *)
Rest(s, t) == /\ t \in States /\ t.last = s.last /\ t.switch = s.switch
              /\ t.fault = s.fault /\ t.took = s.took
SameLeft(s, t)  == t.fsm = s.fsm /\ (LeftDown(t) <=> LeftDown(s))
SameRight(s, t) == t.scope = s.scope /\ (RightDown(t) <=> RightDown(s))
SameMask(s, t)  == t.stop = s.stop /\ (MaskOn(t) <=> MaskOn(s))

-----------------------------------------------------------------------------
LEMMA LeftUpIs ==
  ASSUME NEW s \in States
  PROVE  /\ Rest(s, LeftUp(s)) /\ SameRight(s, LeftUp(s)) /\ SameMask(s, LeftUp(s))
         /\ LeftUp(s).fsm = s.fsm /\ ~LeftDown(LeftUp(s))
BY DEF States, Rest, SameRight, SameMask, RightDown, MaskOn, LeftDown, LeftUp, Send, Press, Felt, Effect, Works, Part

LEMMA RightUpIs ==
  ASSUME NEW s \in States
  PROVE  /\ Rest(s, RightUp(s)) /\ SameLeft(s, RightUp(s)) /\ SameMask(s, RightUp(s))
         /\ RightUp(s).scope = s.scope /\ ~RightDown(RightUp(s))
BY DEF States, Rest, SameLeft, SameMask, RightDown, MaskOn, LeftDown, RightUp, Send, Press, Felt, Effect, Works, Part

MaskCommand(s, t) ==
    /\ Rest(s, t) /\ SameLeft(s, t) /\ SameRight(s, t) /\ MaskOwned(t)

LEMMA SendMaskIs ==
  ASSUME NEW s \in States, NEW verb \in {"mask", "unmask"}
  PROVE  LET t == Send(s, verb) IN
         /\ t \in States /\ t.last = s.last /\ t.switch = s.switch /\ t.fault = s.fault
         /\ t.took = s.took /\ t.fsm = s.fsm /\ t.scope = s.scope /\ t.stop = s.stop
         /\ t.dev.left = s.dev.left /\ t.dev.right = s.dev.right
         /\ t.doubt \ {"mask"} = s.doubt \ {"mask"}
         /\ ~Works(s, verb) => "mask" \in t.doubt
         /\ Works(s, verb) /\ verb = "unmask" => t.dev.mask = 0
<1> DEFINE t == Send(s, verb)
           d == IF Felt(s, verb) THEN Effect(s.dev, verb) ELSE s.dev
           q == IF Works(s, verb) THEN s.doubt \ {"mask"} ELSE s.doubt \cup {"mask"}
<1>1. Part(verb) = "mask"
  BY DEF Part
<1>2. t = [s EXCEPT !.dev = d, !.press = s.press, !.doubt = q]
  BY <1>1 DEF Send, Press
<1>3. s.dev \in [left : BOOLEAN, right : BOOLEAN, mask : 0..MaskSpan]
      /\ s.doubt \in SUBSET {"left", "right", "mask"}
  BY DEF States
<1>4. /\ Effect(s.dev, verb) \in [left : BOOLEAN, right : BOOLEAN, mask : 0..MaskSpan]
      /\ Effect(s.dev, verb).left = s.dev.left /\ Effect(s.dev, verb).right = s.dev.right
      /\ verb = "unmask" => Effect(s.dev, verb).mask = 0
  <2>1. MaskSpan \in Nat /\ MaskSpan \in 0..MaskSpan /\ 0 \in 0..MaskSpan
    BY OutputAssumption
  <2>2. CASE verb = "mask"
    BY <1>3, <2>1, <2>2 DEF Effect
  <2>3. CASE verb = "unmask"
    BY <1>3, <2>1, <2>3 DEF Effect
  <2>. QED  BY <2>2, <2>3
<1>5. /\ d \in [left : BOOLEAN, right : BOOLEAN, mask : 0..MaskSpan]
      /\ d.left = s.dev.left /\ d.right = s.dev.right
      /\ Works(s, verb) /\ verb = "unmask" => d.mask = 0
  BY <1>3, <1>4 DEF Felt
<1>6. /\ q \in SUBSET {"left", "right", "mask"} /\ q \ {"mask"} = s.doubt \ {"mask"}
      /\ ~Works(s, verb) => "mask" \in q
  BY <1>3
<1> HIDE DEF d, q
<1>7. /\ t \in States /\ t.last = s.last /\ t.switch = s.switch /\ t.fault = s.fault
      /\ t.took = s.took /\ t.fsm = s.fsm /\ t.scope = s.scope /\ t.stop = s.stop
      /\ t.dev = d /\ t.doubt = q
  BY <1>2, <1>5, <1>6 DEF States
<1>. QED  BY <1>5, <1>6, <1>7

LEMMA UnmaskIs ==
  ASSUME NEW s \in States
  PROVE  MaskCommand(s, Unmask(s)) /\ Unmask(s).stop \in {NoStop, s.stop}
<1> DEFINE t == Send(s, "unmask")
           u == [t EXCEPT !.stop = IF Works(s, "unmask") THEN NoStop ELSE @]
<1>1. /\ t \in States /\ t.last = s.last /\ t.switch = s.switch /\ t.fault = s.fault
      /\ t.took = s.took /\ t.fsm = s.fsm /\ t.scope = s.scope /\ t.stop = s.stop
      /\ LeftDown(t) <=> LeftDown(s)
      /\ RightDown(t) <=> RightDown(s)
      /\ ~MaskOn(t)
  BY SendMaskIs DEF LeftDown, RightDown, MaskOn
<1>3. NoStop \in Stops
  BY PartsAssumption DEF Stops, NoStop
<1> HIDE DEF t
<1>4. /\ u \in States /\ u.last = t.last /\ u.switch = t.switch /\ u.fault = t.fault
      /\ u.took = t.took /\ u.fsm = t.fsm /\ u.scope = t.scope /\ u.dev = t.dev
      /\ u.doubt = t.doubt /\ u.stop \in {NoStop, s.stop}
  BY <1>1, <1>3 DEF States
<1> HIDE DEF u
<1>5. MaskCommand(s, u)
  BY <1>1, <1>4 DEF MaskCommand, Rest, SameLeft, SameRight, MaskOwned, MaskOn, LeftDown, RightDown
<1>6. Unmask(s) = u
  BY DEF Unmask, t, u
<1>. QED  BY <1>4, <1>5, <1>6

LEMMA MaskAsIs ==
  ASSUME NEW s \in States, NEW stop \in Stops, stop.phase # "idle"
  PROVE  MaskCommand(s, MaskAs(s, stop)) /\ MaskAs(s, stop).stop \in {stop, s.stop}
<1> DEFINE t == Send(s, "mask")
           u == [t EXCEPT !.stop = IF Works(s, "mask") THEN stop ELSE @]
<1>1. /\ t \in States /\ t.last = s.last /\ t.switch = s.switch /\ t.fault = s.fault
      /\ t.took = s.took /\ t.fsm = s.fsm /\ t.scope = s.scope /\ t.stop = s.stop
      /\ LeftDown(t) <=> LeftDown(s)
      /\ RightDown(t) <=> RightDown(s)
      /\ ~Works(s, "mask") => "mask" \in t.doubt
  BY SendMaskIs DEF LeftDown, RightDown
<1> HIDE DEF t
<1>4. /\ u \in States /\ u.last = t.last /\ u.switch = t.switch /\ u.fault = t.fault
      /\ u.took = t.took /\ u.fsm = t.fsm /\ u.scope = t.scope /\ u.dev = t.dev
      /\ u.doubt = t.doubt /\ u.stop = IF Works(s, "mask") THEN stop ELSE s.stop
  BY <1>1 DEF States
<1> HIDE DEF u
<1>5. MaskCommand(s, u)
  BY <1>1, <1>4
  DEF MaskCommand, Rest, SameLeft, SameRight, MaskOwned, MaskOn, LeftDown, RightDown, Active
<1>6. MaskAs(s, stop) = u
  BY DEF MaskAs, t, u
<1>. QED  BY <1>4, <1>5, <1>6

LEMMA CommandTwice ==
  ASSUME NEW s, NEW t, NEW u, MaskCommand(s, t), MaskCommand(t, u)
  PROVE  MaskCommand(s, u)
BY DEF MaskCommand, Rest, SameLeft, SameRight

LEMMA NoCommand ==
  ASSUME NEW s \in States, MaskOwned(s)
  PROVE  MaskCommand(s, s)
BY DEF MaskCommand, Rest, SameLeft, SameRight

(* A stop that is set anew, the mask still on.                             *)
LEMMA StopSet ==
  ASSUME NEW s \in States, NEW stop \in Stops, stop.phase # "idle"
  PROVE  /\ MaskCommand(s, [s EXCEPT !.stop = stop])
         /\ [s EXCEPT !.stop = stop] \in States /\ [s EXCEPT !.stop = stop].stop = stop
<1> DEFINE t == [s EXCEPT !.stop = stop]
<1>1. /\ t \in States /\ t.last = s.last /\ t.switch = s.switch /\ t.fault = s.fault
      /\ t.took = s.took /\ t.fsm = s.fsm /\ t.scope = s.scope /\ t.dev = s.dev
      /\ t.doubt = s.doubt /\ t.stop = stop
  BY DEF States
<1> HIDE DEF t
<1>2. MaskCommand(s, t)
  BY <1>1 DEF MaskCommand, Rest, SameLeft, SameRight, MaskOwned, LeftDown, RightDown, Active
<1>. QED  BY <1>1, <1>2 DEF t

LEMMA StopsAre ==
  /\ NoStop \in Stops /\ NoStop.phase = "idle" /\ Prepared \in Stops /\ Prepared.phase = "preparing"
  /\ \A x \in 0..Horizon : Fired(x) \in Stops /\ Fired(x).phase = "after"
  /\ Lasting \in Stops /\ Lasting.phase = "continuous"
BY PartsAssumption DEF Stops, NoStop, Prepared, Fired, Lasting

LEMMA EndPreparingIs ==
  ASSUME NEW s \in States
  PROVE  MaskCommand(s, EndPreparing(s)) /\ ~Preparing(EndPreparing(s))
<1> DEFINE t == [s EXCEPT !.stop = Fired(0)]
<1>1. Fired(0) \in Stops /\ Fired(0).phase = "after"
  BY StopsAre, PartsAssumption
<1>2. MaskCommand(s, t) /\ t \in States /\ t.stop = Fired(0)
  BY <1>1, StopSet
<1> HIDE DEF t
<1>3. MaskCommand(t, Unmask(t)) /\ Unmask(t).stop \in {NoStop, t.stop}
  BY <1>2, UnmaskIs
<1>4. MaskCommand(s, Unmask(t))
  BY <1>2, <1>3, CommandTwice
<1>5. ~Preparing(Unmask(t))
  BY <1>1, <1>2, <1>3, StopsAre DEF Preparing
<1>. QED  BY <1>4, <1>5 DEF EndPreparing, t

LEMMA EndStopIs ==
  ASSUME NEW s \in States, MaskOwned(s)
  PROVE  MaskCommand(s, EndStop(s)) /\ ~Preparing(EndStop(s))
<1>1. CASE Preparing(s)
  BY <1>1, EndPreparingIs DEF EndStop
<1>2. CASE ~Preparing(s) /\ LastingOn(s)
  <2>1. EndStop(s) = Unmask(s)
    BY <1>2 DEF EndStop, If
  <2>2. MaskCommand(s, Unmask(s)) /\ Unmask(s).stop \in {NoStop, s.stop}
    BY UnmaskIs
  <2>. QED  BY <1>2, <2>1, <2>2, StopsAre DEF Preparing
<1>3. CASE ~Preparing(s) /\ ~LastingOn(s)
  <2>1. EndStop(s) = s
    BY <1>3 DEF EndStop, If
  <2>. QED  BY <1>3, <2>1, NoCommand
<1>. QED  BY <1>1, <1>2, <1>3

-----------------------------------------------------------------------------
(* Buttons.                                                                *)
LEMMA ZeroIsTime == 0 \in 0..Horizon
BY PartsAssumption

LEMMA ResetIs ==
  ASSUME NEW f \in Triggers
  PROVE  /\ Reset(f) \in Triggers /\ ~Pressed(Reset(f)) /\ Reset(f).mode = f.mode
         /\ Reset(f).lost = Never
BY ZeroIsTime DEF Triggers, Reset, Pressed

LEMMA ForceReleaseIs ==
  ASSUME NEW x \in Scopes
  PROVE  LET r == ForceRelease(x) IN
         /\ r.scope \in Scopes /\ ~r.scope.engaged /\ ~r.scope.pending /\ r.scope.mode = x.mode
         /\ "release" \in r.act <=> x.pending \/ (x.engaged /\ x.mode = 2)
BY DEF Scopes, ForceRelease, Turns

LEMMA ResetTriggerIs ==
  ASSUME NEW s \in States
  PROVE  /\ Rest(s, ResetTrigger(s)) /\ SameRight(s, ResetTrigger(s))
         /\ SameMask(s, ResetTrigger(s))
         /\ ResetTrigger(s).fsm = Reset(s.fsm) /\ ~Pressed(ResetTrigger(s).fsm)
         /\ LeftDown(ResetTrigger(s)) <=> LeftDown(s)
<1> DEFINE t == [s EXCEPT !.fsm = Reset(s.fsm)]
<1>1. s.fsm \in Triggers /\ Reset(s.fsm) \in Triggers /\ ~Pressed(Reset(s.fsm))
  BY ResetIs DEF States
<1>2. /\ t \in States /\ t.last = s.last /\ t.switch = s.switch /\ t.fault = s.fault
      /\ t.took = s.took /\ t.fsm = Reset(s.fsm) /\ t.scope = s.scope /\ t.dev = s.dev
      /\ t.doubt = s.doubt /\ t.stop = s.stop
  BY <1>1 DEF States
<1>3. ResetTrigger(s) = t
  BY DEF ResetTrigger
<1> HIDE DEF t
<1>. QED  BY <1>1, <1>2, <1>3 DEF Rest, SameRight, SameMask, LeftDown, RightDown, MaskOn

LEMMA ScopeSet ==
  ASSUME NEW s \in States, NEW x \in Scopes
  PROVE  LET t == [s EXCEPT !.scope = x] IN
         /\ Rest(s, t) /\ SameLeft(s, t) /\ SameMask(s, t) /\ t.scope = x
         /\ RightDown(t) <=> RightDown(s)
<1> DEFINE t == [s EXCEPT !.scope = x]
<1>1. /\ t \in States /\ t.last = s.last /\ t.switch = s.switch /\ t.fault = s.fault
      /\ t.took = s.took /\ t.fsm = s.fsm /\ t.scope = x /\ t.dev = s.dev
      /\ t.doubt = s.doubt /\ t.stop = s.stop
  BY DEF States
<1> HIDE DEF t
<1>2. Rest(s, t) /\ SameLeft(s, t) /\ SameMask(s, t) /\ (RightDown(t) <=> RightDown(s))
  BY <1>1 DEF Rest, SameLeft, SameMask, LeftDown, RightDown, MaskOn
<1>. QED  BY <1>1, <1>2 DEF t

LEMMA FsmSet ==
  ASSUME NEW s \in States, NEW f \in Triggers
  PROVE  LET t == [s EXCEPT !.fsm = f] IN
         /\ Rest(s, t) /\ SameRight(s, t) /\ SameMask(s, t) /\ t.fsm = f
         /\ LeftDown(t) <=> LeftDown(s)
<1> DEFINE t == [s EXCEPT !.fsm = f]
<1>1. /\ t \in States /\ t.last = s.last /\ t.switch = s.switch /\ t.fault = s.fault
      /\ t.took = s.took /\ t.fsm = f /\ t.scope = s.scope /\ t.dev = s.dev
      /\ t.doubt = s.doubt /\ t.stop = s.stop
  BY DEF States
<1> HIDE DEF t
<1>2. Rest(s, t) /\ SameRight(s, t) /\ SameMask(s, t) /\ (LeftDown(t) <=> LeftDown(s))
  BY <1>1 DEF Rest, SameRight, SameMask, LeftDown, RightDown, MaskOn
<1>. QED  BY <1>1, <1>2 DEF t

(* The right button comes up with its scope.                               *)
RightCommand(s, t) == Rest(s, t) /\ SameLeft(s, t) /\ SameMask(s, t)

LEMMA LetGoIs ==
  ASSUME NEW s \in States, RightOwned(s)
  PROVE  /\ RightCommand(s, LetGo(s)) /\ ~RightDown(LetGo(s))
         /\ LetGo(s).scope = ForceRelease(s.scope).scope
<1> DEFINE r == ForceRelease(s.scope)
           t == [s EXCEPT !.scope = r.scope]
<1>1. s.scope \in Scopes
  BY DEF States
<1>2. r.scope \in Scopes /\ ("release" \in r.act <=> Holding(s))
  BY <1>1, ForceReleaseIs DEF Holding
<1>3. LetGo(s) = IF "release" \in r.act THEN RightUp(t) ELSE t
  BY DEF LetGo, If
<1>4. /\ Rest(s, t) /\ SameLeft(s, t) /\ SameMask(s, t) /\ t.scope = r.scope
      /\ RightDown(t) <=> RightDown(s)
  BY <1>2, ScopeSet
<1> HIDE DEF t, r
<1>5. t \in States
  BY <1>4 DEF Rest
<1>6. CASE "release" \in r.act
  <2>1. /\ Rest(t, RightUp(t)) /\ SameLeft(t, RightUp(t)) /\ SameMask(t, RightUp(t))
        /\ RightUp(t).scope = t.scope /\ ~RightDown(RightUp(t))
    BY <1>5, RightUpIs
  <2>2. RightCommand(s, RightUp(t))
    BY <1>4, <2>1 DEF RightCommand, Rest, SameLeft, SameMask
  <2>. QED  BY <1>3, <1>4, <1>6, <2>1, <2>2 DEF r
<1>7. CASE "release" \notin r.act
  <2>1. ~RightDown(t)
    BY <1>2, <1>4, <1>7 DEF RightOwned
  <2>. QED  BY <1>3, <1>4, <1>7, <2>1 DEF r, RightCommand
<1>. QED  BY <1>6, <1>7

LEMMA RightUpRetriedIs ==
  ASSUME NEW s \in States
  PROVE  LET t == RightUpRetried(s) IN
         /\ RightCommand(s, t) /\ ~RightDown(t) /\ t.scope \in {s.scope, Retry(s.scope)}
<1> DEFINE t == RightUp(s)
           u == [t EXCEPT !.scope = Retry(t.scope)]
<1>1. /\ Rest(s, t) /\ SameLeft(s, t) /\ SameMask(s, t) /\ t.scope = s.scope /\ ~RightDown(t)
      /\ t \in States
  BY RightUpIs DEF Rest
<1>2. RightUpRetried(s) = IF Works(s, "rightUp") THEN t ELSE u
  BY DEF RightUpRetried
<1> HIDE DEF t
<1>3. Retry(t.scope) \in Scopes
  <2>1. t.scope \in Scopes
    BY <1>1 DEF States
  <2>. QED  BY <2>1, ZeroIsTime DEF Scopes, Retry
<1>4. /\ Rest(t, u) /\ SameLeft(t, u) /\ SameMask(t, u) /\ u.scope = Retry(t.scope)
      /\ RightDown(u) <=> RightDown(t)
  BY <1>1, <1>3, ScopeSet
<1> HIDE DEF u
<1>5. RightCommand(s, t) /\ RightCommand(s, u)
  BY <1>1, <1>4 DEF RightCommand, Rest, SameLeft, SameMask
<1>. QED  BY <1>1, <1>2, <1>4, <1>5

-----------------------------------------------------------------------------
(* All a hotkey holds is let go.                                           *)
Released(s, t) ==
    /\ Rest(s, t) /\ Owned(t) /\ t.fsm = Reset(s.fsm) /\ ~Holding(t) /\ ~t.scope.engaged
    /\ ~Pressed(t.fsm) /\ ~Preparing(t)

LEMMA ReleaseHeldIs ==
  ASSUME NEW s \in States, Owned(s)
  PROVE  Released(s, ReleaseHeldButtons(s))
<1> DEFINE r == ResetTrigger(s)
           t == LetGo(r)
           u == IF Pressed(s.fsm) THEN LeftUp(t) ELSE t
<1>1. /\ Rest(s, r) /\ SameRight(s, r) /\ SameMask(s, r) /\ r.fsm = Reset(s.fsm)
      /\ ~Pressed(r.fsm) /\ (LeftDown(r) <=> LeftDown(s)) /\ r \in States
  BY ResetTriggerIs DEF Rest
<1>2. RightOwned(r)
  BY <1>1 DEF Owned, RightOwned, SameRight, Holding
<1>3. ReleaseHeldButtons(s) = EndStop(u)
  BY DEF ReleaseHeldButtons, If, CompleteShot
<1> HIDE DEF r
<1>4. RightCommand(r, t) /\ ~RightDown(t) /\ t.scope = ForceRelease(r.scope).scope /\ t \in States
  BY <1>1, <1>2, LetGoIs DEF RightCommand, Rest
<1>5. ~t.scope.engaged /\ ~t.scope.pending
  <2>1. r.scope \in Scopes
    BY <1>1 DEF States
  <2>. QED  BY <1>4, <2>1, ForceReleaseIs
<1>6. /\ Rest(t, LeftUp(t)) /\ SameRight(t, LeftUp(t)) /\ SameMask(t, LeftUp(t))
      /\ LeftUp(t).fsm = t.fsm /\ ~LeftDown(LeftUp(t))
  BY <1>4, LeftUpIs
<1> HIDE DEF t
<1>7. /\ Rest(s, u) /\ u \in States /\ u.fsm = Reset(s.fsm) /\ u.scope = t.scope
      /\ ~LeftDown(u) /\ ~RightDown(u) /\ SameMask(s, u)
  <2>1. CASE Pressed(s.fsm)
    BY <1>1, <1>4, <1>6, <2>1 DEF RightCommand, Rest, SameLeft, SameRight, SameMask
  <2>2. CASE ~Pressed(s.fsm)
    <3>1. ~LeftDown(s)
      BY <2>2 DEF Owned, LeftOwned
    <3>. QED  BY <1>1, <1>4, <2>2, <3>1 DEF RightCommand, Rest, SameLeft, SameRight, SameMask
  <2>. QED  BY <2>1, <2>2
<1> HIDE DEF u
<1>8. MaskOwned(u)
  BY <1>7 DEF SameMask, Owned, MaskOwned, Active
<1>9. MaskCommand(u, EndStop(u)) /\ ~Preparing(EndStop(u))
  BY <1>7, <1>8, EndStopIs
<1>10. ~Pressed(Reset(s.fsm))
  BY <1>1
<1>. QED  BY <1>3, <1>5, <1>7, <1>9, <1>10
     DEF Released, MaskCommand, Rest, SameLeft, SameRight, Owned, LeftOwned, RightOwned, Holding

(* Who answers for what before a tick acts, and after it changed its mind  *)
(* about the hotkey: nothing is pressed anew.                              *)
Eased(s, t) ==
    /\ t \in States /\ t.switch = s.switch /\ t.fault = s.fault /\ t.took = s.took /\ Owned(t)
    /\ t.fsm = s.fsm \/ ~Pressed(t.fsm)
    /\ Holding(t) => Holding(s)
    /\ t.scope.engaged => s.scope.engaged
    /\ Preparing(t) => Preparing(s)

LEMMA EasedTwice ==
  ASSUME NEW s, NEW t, NEW u, Eased(s, t), Eased(t, u)
  PROVE  Eased(s, u)
BY DEF Eased

LEMMA NotEased ==
  ASSUME NEW s \in States, Owned(s)
  PROVE  Eased(s, s)
BY DEF Eased

LEMMA ReleasedEased ==
  ASSUME NEW s \in States, NEW t, Released(s, t)
  PROVE  Eased(s, t)
BY DEF Eased, Released, Rest

(* The fields no property is about.                                        *)
Notes(s, t) ==
    /\ t \in States /\ t.switch = s.switch /\ t.fault = s.fault /\ t.took = s.took
    /\ t.fsm = s.fsm /\ t.scope = s.scope /\ t.stop = s.stop /\ t.dev = s.dev /\ t.doubt = s.doubt

LEMMA NotesAre ==
  ASSUME NEW s \in States, NEW n \in Nat, NEW a \in BOOLEAN, NEW m \in 0..2
  PROVE  /\ Notes(s, [s EXCEPT !.last = n, !.tapped = FALSE, !.second = FALSE])
         /\ Notes(s, [s EXCEPT !.tapped = FALSE, !.second = a])
         /\ Notes(s, [s EXCEPT !.flash = m]) /\ Notes(s, [s EXCEPT !.last = n])
         /\ Notes(s, [s EXCEPT !.tapped = a])
<1>1. Notes(s, [s EXCEPT !.last = n, !.tapped = FALSE, !.second = FALSE])
  BY DEF States, Notes
<1>2. Notes(s, [s EXCEPT !.tapped = FALSE, !.second = a])
  BY DEF States, Notes
<1>3. Notes(s, [s EXCEPT !.flash = m]) /\ Notes(s, [s EXCEPT !.last = n])
  BY DEF States, Notes
<1>4. Notes(s, [s EXCEPT !.tapped = a])
  BY DEF States, Notes
<1>. QED  BY <1>1, <1>2, <1>3, <1>4

LEMMA NotesEased ==
  ASSUME NEW s, Owned(s), NEW t, Notes(s, t)
  PROVE  Eased(s, t)
BY DEF Eased, Notes, Owned, LeftOwned, RightOwned, MaskOwned, LeftDown, RightDown, MaskOn,
   Holding, Active, Preparing

LEMMA DeactivateIs ==
  ASSUME NEW s \in States, Owned(s)
  PROVE  LET t == DeactivateHotkey(s) IN
         IF s.last = 0 THEN t = s
         ELSE /\ Eased(s, t) /\ t.last = 0 /\ ~Pressed(t.fsm) /\ ~t.scope.engaged
              /\ ~t.scope.pending /\ ~Preparing(t)
<1> DEFINE n == [s EXCEPT !.last = 0, !.tapped = FALSE, !.second = FALSE]
<1>1. Notes(s, n) /\ n.last = 0
  BY NotesAre DEF States
<1>2. DeactivateHotkey(s) = IF s.last = 0 THEN s ELSE ReleaseHeldButtons(n)
  BY DEF DeactivateHotkey
<1> HIDE DEF n
<1>3. Eased(s, n) /\ n \in States
  BY <1>1, NotesEased DEF Notes
<1>4. Released(n, ReleaseHeldButtons(n))
  BY <1>3, ReleaseHeldIs DEF Eased
<1>5. Eased(s, ReleaseHeldButtons(n))
  BY <1>3, <1>4, ReleasedEased, EasedTwice
<1>6. /\ ReleaseHeldButtons(n).last = 0 /\ ~Pressed(ReleaseHeldButtons(n).fsm)
      /\ ~ReleaseHeldButtons(n).scope.engaged /\ ~ReleaseHeldButtons(n).scope.pending
      /\ ~Preparing(ReleaseHeldButtons(n))
  BY <1>1, <1>4 DEF Released, Rest, Holding
<1>. QED  BY <1>2, <1>5, <1>6

LEMMA TakeProfileIs ==
  ASSUME NEW s \in States, Owned(s), NEW p, IsProfile(p)
  PROVE  Eased(s, TakeProfile(s, p)) /\ TakeProfile(s, p).last = p.key
<1>1. p.key \in Nat /\ p.key # 0 /\ p.second \in BOOLEAN /\ FlashMode(p) \in 0..2
  BY DEF IsProfile, FlashMode
<1>2. ASSUME NEW x \in States, Owned(x)
      PROVE  Eased(x, ReleaseHeldButtons(x))
  BY <1>2, ReleaseHeldIs, ReleasedEased
<1>3. ASSUME NEW x \in States, Owned(x)
      PROVE  Eased(x, TakeSecond(x, p))
  <2> DEFINE r == ReleaseHeldButtons(x)
             n == [r EXCEPT !.tapped = FALSE, !.second = p.second]
  <2>1. Eased(x, r) /\ r \in States /\ Owned(r)
    BY <1>2, <1>3 DEF Eased
  <2>2. TakeSecond(x, p) = IF x.second = p.second THEN x ELSE n
    BY DEF TakeSecond
  <2> HIDE DEF r
  <2>3. Notes(r, n)
    BY <1>1, <2>1, NotesAre
  <2> HIDE DEF n
  <2>4. Eased(x, n) /\ Eased(x, x)
    BY <1>3, <2>1, <2>3, NotesEased, EasedTwice, NotEased
  <2>. QED  BY <2>2, <2>4
<1>4. ASSUME NEW x \in States, Owned(x)
      PROVE  Eased(x, TakeMode(x, p))
  <2> DEFINE r == ReleaseHeldButtons(x)
             n == [r EXCEPT !.flash = FlashMode(p)]
  <2>1. Eased(x, r) /\ r \in States /\ Owned(r)
    BY <1>2, <1>4 DEF Eased
  <2>2. TakeMode(x, p) = IF x.flash = FlashMode(p) THEN x ELSE n
    BY DEF TakeMode
  <2> HIDE DEF r
  <2>3. Notes(r, n)
    BY <1>1, <2>1, NotesAre
  <2> HIDE DEF n
  <2>4. Eased(x, n) /\ Eased(x, x)
    BY <1>4, <2>1, <2>3, NotesEased, EasedTwice, NotEased
  <2>. QED  BY <2>2, <2>4
<1>5. ASSUME NEW x \in States, Owned(x)
      PROVE  Eased(x, TakeKey(x, p)) /\ TakeKey(x, p).last = p.key
  <2> DEFINE t == [x EXCEPT !.last = p.key]
             n == [t EXCEPT !.tapped = FALSE]
  <2>1. TakeKey(x, p) = IF x.last \in {0, p.key} THEN t ELSE ReleaseHeldButtons(n)
    BY DEF TakeKey
  <2>2. Notes(x, t) /\ t.last = p.key
    BY <1>1, NotesAre DEF States
  <2>3. t \in States /\ Owned(t) /\ Eased(x, t)
    BY <1>5, <2>2, NotesEased DEF Eased
  <2> HIDE DEF t
  <2>4. Notes(t, n) /\ n.last = t.last
    BY <2>3, NotesAre DEF States
  <2> HIDE DEF n
  <2>5. Eased(t, n) /\ Owned(n) /\ n \in States
    BY <2>3, <2>4, NotesEased DEF Eased
  <2>6. Released(n, ReleaseHeldButtons(n))
    BY <2>5, ReleaseHeldIs
  <2>7. Eased(n, ReleaseHeldButtons(n)) /\ ReleaseHeldButtons(n).last = n.last
    BY <2>5, <2>6, ReleasedEased DEF Released, Rest
  <2>. QED  BY <2>1, <2>2, <2>3, <2>4, <2>5, <2>7, EasedTwice
<1> DEFINE a == TakeSecond(s, p)
           b == TakeMode(a, p)
<1>6. Eased(s, a) /\ a \in States /\ Owned(a)
  BY <1>3 DEF Eased
<1>7. TakeProfile(s, p) = TakeKey(b, p)
  BY DEF TakeProfile
<1> HIDE DEF a
<1>8. Eased(a, b) /\ b \in States /\ Owned(b)
  BY <1>4, <1>6 DEF Eased
<1> HIDE DEF b
<1>9. Eased(b, TakeKey(b, p)) /\ TakeKey(b, p).last = p.key
  BY <1>5, <1>8
<1>. QED  BY <1>6, <1>7, <1>8, <1>9, EasedTwice

LEMMA AfterShotIs ==
  ASSUME NEW s \in States, Owned(s)
  PROVE  /\ MaskCommand(s, AfterShot(s))
         /\ AfterShot(s).stop \in {NoStop, s.stop}
<1>1. AfterShot(s) = IF IsOver(s.stop) THEN Unmask(s) ELSE s
  BY DEF AfterShot, If
<1>. QED  BY <1>1, UnmaskIs, NoCommand DEF Owned

LEMMA CommandOwned ==
  ASSUME NEW s \in States, Owned(s), NEW t, MaskCommand(s, t)
  PROVE  Owned(t) /\ t \in States
BY DEF MaskCommand, Rest, SameLeft, SameRight, Owned, LeftOwned, RightOwned, Holding

-----------------------------------------------------------------------------
(* The trigger's own machine.                                              *)
LEMMA ConfigureIs ==
  ASSUME NEW s \in States, Owned(s), NEW p, IsProfile(p)
  PROVE  LET t == Configure(s, p) IN
         /\ Rest(s, t) /\ Owned(t) /\ t.fsm.mode = FireMode(p)
         /\ t.fsm = s.fsm \/ ~Pressed(t.fsm)
<1> DEFINE f == [Reset(s.fsm) EXCEPT !.mode = FireMode(p)]
           t == [s EXCEPT !.fsm = f]
<1>1. s.fsm \in Triggers /\ FireMode(p) \in FireModes
  BY DEF States, IsProfile, FireMode, FireModes
<1>2. f \in Triggers /\ ~Pressed(f) /\ f.mode = FireMode(p)
  <2>1. Reset(s.fsm) \in Triggers /\ ~Pressed(Reset(s.fsm))
    BY <1>1, ResetIs
  <2>. QED  BY <1>1, <2>1 DEF Triggers, Pressed
<1>3. Configure(s, p) = IF s.fsm.mode = FireMode(p) THEN s
                        ELSE IF Pressed(s.fsm) THEN LeftUp(t) ELSE t
  BY DEF Configure, If, CompleteShot
<1> HIDE DEF f
<1>4. /\ Rest(s, t) /\ SameRight(s, t) /\ SameMask(s, t) /\ t.fsm = f
      /\ LeftDown(t) <=> LeftDown(s)
  BY <1>2, FsmSet
<1> HIDE DEF t
<1>5. /\ Rest(t, LeftUp(t)) /\ SameRight(t, LeftUp(t)) /\ SameMask(t, LeftUp(t))
      /\ LeftUp(t).fsm = t.fsm /\ ~LeftDown(LeftUp(t))
  BY <1>4, LeftUpIs DEF Rest
<1>6. CASE s.fsm.mode = FireMode(p)
  BY <1>3, <1>6 DEF Rest
<1>7. CASE s.fsm.mode # FireMode(p) /\ Pressed(s.fsm)
  <2>1. Owned(LeftUp(t))
    BY <1>4, <1>5 DEF Owned, LeftOwned, RightOwned, MaskOwned, SameRight, SameMask, Holding, Active
  <2>2. Rest(s, LeftUp(t))
    BY <1>4, <1>5 DEF Rest
  <2>. QED  BY <1>2, <1>3, <1>4, <1>5, <1>7, <2>1, <2>2
<1>8. CASE s.fsm.mode # FireMode(p) /\ ~Pressed(s.fsm)
  <2>1. Owned(t)
    BY <1>4, <1>8 DEF Owned, LeftOwned, RightOwned, MaskOwned, SameRight, SameMask, Holding, Active
  <2>. QED  BY <1>2, <1>3, <1>4, <1>8, <2>1
<1>. QED  BY <1>6, <1>7, <1>8

LEMMA MissedIs ==
  ASSUME NEW f \in Triggers, NEW grace \in 0..Horizon
  PROVE  /\ Missed(f, grace) \in Triggers /\ Missed(f, grace).mode = f.mode
         /\ Missed(f, grace).phase = f.phase /\ Missed(f, grace).due = f.due
         /\ Pressed(Missed(f, grace)) <=> Pressed(f)
         /\ Missed(f, grace).lost =
               IF Pressed(f) /\ f.mode = "smart" /\ grace > 0 /\ f.lost = Never THEN 0 ELSE f.lost
BY ZeroIsTime DEF Missed, Triggers, Pressed

TimesOf(p) == {p.start, p.interval, p.grace, p.before, p.duration} \subseteq 0..Horizon

LEMMA LongerIs ==
  ASSUME NEW x \in 0..Horizon, NEW y \in 0..Horizon
  PROVE  Longer(x, y) \in 0..Horizon
BY DEF Longer

LEMMA ShootIs ==
  ASSUME NEW f \in Triggers, NEW p, TimesOf(p)
  PROVE  LET r == Shoot(f, p) IN
         /\ r.fsm \in Triggers /\ r.fsm.mode = f.mode /\ r.fsm.lost = f.lost
         /\ "release" \notin r.act
         /\ "press" \in r.act <=> Pressed(r.fsm)
<1> DEFINE wait == IF f.started THEN 0
                   ELSE Longer(IF f.mode = "click" THEN 0 ELSE p.start, p.before)
           due  == IF HoldsOn(f) THEN 0 ELSE Longer(Shortest(f), p.duration)
           r1 == [f EXCEPT !.started = TRUE, !.phase = "delay", !.due = wait]
           r2 == [f EXCEPT !.started = TRUE, !.phase = "pressed", !.due = due]
<1>1. wait \in 0..Horizon /\ due \in 0..Horizon
  <2>1. Shortest(f) \in 0..Horizon
    BY PartsAssumption DEF Shortest
  <2>2. p.start \in 0..Horizon /\ p.before \in 0..Horizon /\ p.duration \in 0..Horizon
    BY DEF TimesOf
  <2>. QED  BY <2>1, <2>2, ZeroIsTime, LongerIs
<1>2. Shoot(f, p) = IF wait > 0 THEN Does(r1, IF p.before > 0 THEN {"prepare"} ELSE {})
                    ELSE Does(r2, {"press"})
  BY DEF Shoot
<1> HIDE DEF wait, due
<1>3. /\ r1 \in Triggers /\ r1.mode = f.mode /\ r1.lost = f.lost /\ ~Pressed(r1)
      /\ r2 \in Triggers /\ r2.mode = f.mode /\ r2.lost = f.lost /\ Pressed(r2)
  BY <1>1 DEF Triggers, Pressed
<1> HIDE DEF r1, r2
<1>. QED  BY <1>2, <1>3 DEF Does

(* The time of a miss since the first one.                                 *)
Lost(f) == IF f.lost = Never THEN 0 ELSE f.lost

LEMMA TickTriggerIs ==
  ASSUME NEW f \in Triggers, NEW in \in BOOLEAN, NEW ready \in BOOLEAN, NEW p, TimesOf(p)
  PROVE  LET r == TickTrigger(f, in, ready, p) IN
         /\ r.fsm \in Triggers /\ r.fsm.mode = f.mode
         /\ Pressed(f) /\ ~Pressed(r.fsm) => "release" \in r.act
         /\ "press" \in r.act => ~Pressed(f) /\ Pressed(r.fsm) /\ "release" \notin r.act
         /\ Pressed(r.fsm) /\ f.mode = "smart" =>
              IF in THEN r.fsm.lost = Never
              ELSE Pressed(f) /\ r.fsm.lost = Lost(f) /\ r.fsm.lost < p.grace
<1> DEFINE r == TickTrigger(f, in, ready, p)
           g == [f EXCEPT !.lost = Never]
<1>1. p.grace \in 0..Horizon /\ p.interval \in 0..Horizon
  BY DEF TimesOf
<1>2. /\ g \in Triggers /\ g.mode = f.mode /\ g.phase = f.phase /\ g.due = f.due
      /\ g.lost = Never /\ g.due \in 0..Horizon
      /\ (Pressed(g) <=> Pressed(f)) /\ (HoldsOn(g) <=> HoldsOn(f))
  BY DEF Triggers, Pressed, HoldsOn
<1>3. CASE ~ready \/ ~(in \/ LatchedOn(f) \/ KeepsOn(f, p.grace))
  <2>1. r = Does(Reset(f), IF Pressed(f) THEN {"release"} ELSE {})
    BY <1>3 DEF TickTrigger
  <2>. QED  BY <2>1, ResetIs DEF Does
<1>4. CASE ready /\ ~in /\ ~LatchedOn(f) /\ KeepsOn(f, p.grace)
  <2>1. r = Does(Missed(f, p.grace), {})
    BY <1>4 DEF TickTrigger
  <2>2. Pressed(f) /\ (f.mode = "smart" => Lost(f) < p.grace)
    BY <1>4 DEF KeepsOn, Lost
  <2>3. f.lost \in {Never} \cup 0..Horizon
    BY DEF Triggers
  <2>4. f.mode = "smart" => Missed(f, p.grace).lost = Lost(f)
    BY <1>1, <2>2, <2>3, MissedIs DEF Lost
  <2>5. r.fsm = Missed(f, p.grace) /\ r.act = {}
    BY <2>1 DEF Does
  <2>6. /\ Missed(f, p.grace) \in Triggers /\ Missed(f, p.grace).mode = f.mode
        /\ Pressed(Missed(f, p.grace))
    BY <1>1, <2>2, MissedIs
  <2>. QED  BY <1>4, <2>2, <2>4, <2>5, <2>6
<1>5. CASE ready /\ (in \/ LatchedOn(f))
  <2>1. f.mode = "smart" => in
    BY <1>5 DEF LatchedOn
  <2>2. r = CASE g.due > 0 \/ (Pressed(g) /\ HoldsOn(g)) -> Does(g, {})
              [] g.due = 0 /\ Pressed(g) /\ ~HoldsOn(g) ->
                   Does([g EXCEPT !.phase = "cooldown", !.due = Longer(Shortest(g), p.interval)],
                        {"release"})
              [] g.due = 0 /\ g.phase = "cooldown" -> Does([g EXCEPT !.phase = "idle"], {})
              [] OTHER -> Shoot(g, p)
    BY <1>5 DEF TickTrigger
  <2> HIDE DEF g, r
  <2>3. CASE g.due > 0 \/ (Pressed(g) /\ HoldsOn(g))
    <3>1. r = Does(g, {})
      BY <2>2, <2>3, <1>2 DEF Pressed, HoldsOn
    <3>. QED  BY <1>2, <2>1, <3>1 DEF Does, r
  <2>4. CASE g.due = 0 /\ Pressed(g) /\ ~HoldsOn(g)
    <3> DEFINE c == [g EXCEPT !.phase = "cooldown", !.due = Longer(Shortest(g), p.interval)]
    <3>1. r = Does(c, {"release"})
      BY <2>2, <2>4 DEF Pressed, HoldsOn
    <3>2. Longer(Shortest(g), p.interval) \in 0..Horizon
      <4>1. Shortest(g) \in 0..Horizon
        BY PartsAssumption DEF Shortest
      <4>. QED  BY <1>1, <4>1, LongerIs
    <3>3. c \in Triggers /\ c.mode = g.mode /\ ~Pressed(c)
      BY <1>2, <3>2 DEF Triggers, Pressed
    <3> HIDE DEF c
    <3>. QED  BY <1>2, <3>1, <3>3 DEF Does, r
  <2>5. CASE g.due = 0 /\ ~Pressed(g) /\ g.phase = "cooldown"
    <3> DEFINE c == [g EXCEPT !.phase = "idle"]
    <3>1. r = Does(c, {})
      BY <2>2, <2>5
    <3>2. c \in Triggers /\ c.mode = g.mode /\ ~Pressed(c)
      BY <1>2 DEF Triggers, Pressed
    <3> HIDE DEF c
    <3>. QED  BY <1>2, <2>5, <3>1, <3>2 DEF Does, r
  <2>6. CASE g.due = 0 /\ ~Pressed(g) /\ g.phase # "cooldown"
    <3>1. r = Shoot(g, p)
      BY <2>2, <2>6
    <3>2. /\ r.fsm \in Triggers /\ r.fsm.mode = g.mode /\ r.fsm.lost = g.lost
          /\ "release" \notin r.act
          /\ "press" \in r.act <=> Pressed(r.fsm)
      BY <1>2, <3>1, ShootIs
    <3>. QED  BY <1>2, <2>1, <2>6, <3>2 DEF r
  <2>. QED  BY <1>2, <2>3, <2>4, <2>5, <2>6
<1>. QED  BY <1>3, <1>4, <1>5

-----------------------------------------------------------------------------
(* The scope.                                                              *)
Holds(x) == x.pending \/ (x.engaged /\ x.mode = 2)

LEMMA TickScopeIs ==
  ASSUME NEW x \in Scopes, NEW zone \in BOOLEAN, NEW allowed \in BOOLEAN, NEW mode \in 0..2,
         NEW delay \in 0..Horizon
  PROVE  LET r == TickScope(x, zone, allowed, mode, delay) IN
         /\ r.scope \in Scopes
         /\ "release" \notin r.act /\ Holds(x) => Holds(r.scope)
         /\ "press" \in r.act => Holds(r.scope)
<1> DEFINE tapped  == x.pending /\ x.tap = 0
           pending == x.pending /\ ~tapped
           changed == x.engaged /\ mode # x.mode
           engaged == x.engaged /\ ~changed
           opens   == zone /\ mode > 0 /\ ~engaged
           tap     == IF opens /\ mode = 1 THEN Longer(MinTap, delay) ELSE x.tap
           y == [engaged |-> engaged \/ opens, mode |-> mode,
                 pending |-> (pending /\ ~changed) \/ (opens /\ mode = 1), tap |-> tap]
           act == (IF tapped \/ (changed /\ (x.mode = 2 \/ pending)) THEN {"release"} ELSE {})
                  \cup (IF opens THEN {"press"} ELSE {})
           r == TickScope(x, zone, allowed, mode, delay)
<1>1. CASE ~allowed
  <2> DEFINE z == ForceRelease(x)
  <2>1. r = Turns([z.scope EXCEPT !.mode = mode], z.act)
    BY <1>1 DEF TickScope
  <2>2. /\ z.scope \in Scopes /\ ("release" \in z.act <=> Holds(x))
    BY ForceReleaseIs DEF Holds
  <2>3. "press" \notin z.act
    BY DEF ForceRelease, Turns
  <2> HIDE DEF z
  <2>4. [z.scope EXCEPT !.mode = mode] \in Scopes
    BY <2>2 DEF Scopes
  <2>. QED  BY <2>1, <2>2, <2>3, <2>4 DEF Turns
<1>2. CASE allowed
  <2>1. r = Turns(y, act)
    BY <1>2 DEF TickScope
  <2>2. x.engaged \in BOOLEAN /\ x.pending \in BOOLEAN /\ x.mode \in 0..2 /\ x.tap \in 0..Horizon
    BY DEF Scopes
  <2>3. tap \in 0..Horizon
    <3>1. MinTap \in 0..Horizon
      BY PartsAssumption
    <3>. QED  BY <2>2, <3>1, LongerIs
  <2> HIDE DEF tap
  <2>4. y \in Scopes
    BY <2>2, <2>3 DEF Scopes
  <2>5. "release" \notin act /\ Holds(x) => Holds(y)
    BY <2>2 DEF Holds
  <2>6. "press" \in act => Holds(y)
    BY <2>2 DEF Holds
  <2> HIDE DEF y, act
  <2>. QED  BY <2>1, <2>4, <2>5, <2>6 DEF Turns
<1>. QED  BY <1>1, <1>2

LEMMA RetryHolds ==
  ASSUME NEW x \in Scopes
  PROVE  Holds(x) => Holds(Retry(x))
BY DEF Holds, Retry, Scopes

(* A press that fails takes the scope back.                                *)
LEMMA OpenScopeIs ==
  ASSUME NEW s \in States, Owned(s), Holds(s.scope), NEW p, IsProfile(p)
  PROVE  /\ Rest(s, OpenScope(s, p)) /\ Owned(OpenScope(s, p))
         /\ OpenScope(s, p).fsm = s.fsm
<1> DEFINE t == Send(s, "rightDown")
           n == [t EXCEPT !.tapped = @ \/ p.scope = 1]
<1>1. /\ Rest(s, t) /\ SameLeft(s, t) /\ SameMask(s, t) /\ t.scope = s.scope
      /\ ~Works(s, "rightDown") => ~RightDown(t)
  BY DEF States, Rest, SameLeft, SameMask, RightDown, MaskOn, LeftDown, Send, Press, Felt, Effect, Works, Part
<1>2. OpenScope(s, p) = IF Works(s, "rightDown") THEN n ELSE LetGo(t)
  BY DEF OpenScope
<1> HIDE DEF t
<1>3. t \in States /\ Owned(t) /\ t.fsm = s.fsm
  BY <1>1 DEF Rest, Owned, LeftOwned, RightOwned, MaskOwned, SameLeft, SameMask, Holding, Holds,
     Active
<1>4. Notes(t, n)
  <2> DEFINE noted == t.tapped \/ p.scope = 1
  <2>1. noted \in BOOLEAN /\ n = [t EXCEPT !.tapped = noted]
    BY <1>3 DEF States
  <2> HIDE DEF n, noted
  <2>2. Notes(t, [t EXCEPT !.tapped = noted])
    BY <1>3, <2>1 DEF Notes, States
  <2>. QED  BY <2>1, <2>2
<1>5. Rest(s, n) /\ Owned(n) /\ n.fsm = s.fsm
  <2>1. n.last = t.last
    BY <1>3 DEF States
  <2> HIDE DEF n
  <2>2. Eased(t, n)
    BY <1>3, <1>4, NotesEased
  <2>. QED  BY <1>1, <1>3, <1>4, <2>1, <2>2 DEF Eased, Notes, Rest
<1>6. /\ RightCommand(t, LetGo(t)) /\ ~RightDown(LetGo(t))
  BY <1>3, LetGoIs DEF Owned
<1>7. Rest(s, LetGo(t)) /\ Owned(LetGo(t)) /\ LetGo(t).fsm = s.fsm
  BY <1>1, <1>3, <1>6 DEF RightCommand, Rest, SameLeft, SameMask, Owned, LeftOwned, RightOwned,
     MaskOwned, Active
<1>. QED  BY <1>2, <1>5, <1>7

LEMMA ScopedIs ==
  ASSUME NEW s \in States, Owned(s), NEW p, IsProfile(p), NEW zone \in BOOLEAN
  PROVE  /\ Rest(s, Scoped(s, p, zone)) /\ Owned(Scoped(s, p, zone))
         /\ Scoped(s, p, zone).fsm = s.fsm \/ ~Pressed(Scoped(s, p, zone).fsm)
         /\ Scoped(s, p, zone).fsm.mode = s.fsm.mode
<1> DEFINE t == TickScope(s.scope, zone, Allowed(p) /\ p.enabled, p.scope, p.duration)
           s1 == [s EXCEPT !.scope = t.scope]
           r1 == ResetTrigger(s1)
           s2 == IF s.scope.mode = p.scope THEN s1
                 ELSE IF Pressed(s.fsm) THEN LeftUp(r1) ELSE r1
           s3 == IF "release" \in t.act THEN RightUpRetried(s2) ELSE s2
<1>1. Scoped(s, p, zone) = IF "press" \in t.act THEN OpenScope(s3, p) ELSE s3
  BY DEF Scoped, If, CompleteShot
<1>2. /\ t.scope \in Scopes
      /\ "release" \notin t.act /\ Holding(s) => Holds(t.scope)
      /\ "press" \in t.act => Holds(t.scope)
  <2>1. /\ s.scope \in Scopes /\ (Allowed(p) /\ p.enabled) \in BOOLEAN /\ p.scope \in 0..2
        /\ p.duration \in 0..Horizon
    BY DEF States, IsProfile, Allowed
  <2>2. Holds(s.scope) <=> Holding(s)
    BY DEF Holds, Holding
  <2>. QED  BY <2>1, <2>2, TickScopeIs
<1> HIDE DEF t
<1>3. /\ Rest(s, s1) /\ SameLeft(s, s1) /\ SameMask(s, s1) /\ s1.scope = t.scope
      /\ (RightDown(s1) <=> RightDown(s)) /\ s1 \in States
  BY <1>2, ScopeSet DEF Rest
<1> HIDE DEF s1
<1>4. /\ Rest(s1, r1) /\ SameRight(s1, r1) /\ SameMask(s1, r1) /\ r1.fsm = Reset(s1.fsm)
      /\ ~Pressed(r1.fsm) /\ (LeftDown(r1) <=> LeftDown(s1)) /\ r1 \in States
  BY <1>3, ResetTriggerIs DEF Rest
<1>5. r1.fsm.mode = s1.fsm.mode
  <2>1. s1.fsm \in Triggers
    BY <1>3 DEF States
  <2>. QED  BY <1>4, <2>1, ResetIs
<1> HIDE DEF r1
<1>6. /\ Rest(r1, LeftUp(r1)) /\ SameRight(r1, LeftUp(r1)) /\ SameMask(r1, LeftUp(r1))
      /\ LeftUp(r1).fsm = r1.fsm /\ ~LeftDown(LeftUp(r1))
  BY <1>4, LeftUpIs
<1>7. /\ Rest(s, s2) /\ s2 \in States /\ SameRight(s1, s2) /\ SameMask(s, s2)
      /\ LeftDown(s2) => Pressed(s2.fsm)
      /\ s2.fsm = s.fsm \/ ~Pressed(s2.fsm)
      /\ s2.fsm.mode = s.fsm.mode
  <2>1. CASE s.scope.mode = p.scope
    BY <1>3, <2>1 DEF Rest, SameLeft, SameRight, SameMask, Owned, LeftOwned
  <2>2. CASE s.scope.mode # p.scope /\ Pressed(s.fsm)
    BY <1>3, <1>4, <1>5, <1>6, <2>2 DEF Rest, SameLeft, SameRight, SameMask
  <2>3. CASE s.scope.mode # p.scope /\ ~Pressed(s.fsm)
    BY <1>3, <1>4, <1>5, <2>3 DEF Rest, SameLeft, SameRight, SameMask, Owned, LeftOwned
  <2>. QED  BY <2>1, <2>2, <2>3
<1> HIDE DEF s2
<1>8. /\ RightCommand(s2, RightUpRetried(s2)) /\ ~RightDown(RightUpRetried(s2))
      /\ RightUpRetried(s2).scope \in {s2.scope, Retry(s2.scope)}
  BY <1>7, RightUpRetriedIs
<1>9. /\ Rest(s, s3) /\ s3 \in States /\ SameLeft(s2, s3) /\ SameMask(s, s3)
      /\ Holds(t.scope) => Holds(s3.scope)
      /\ RightDown(s3) => Holds(s3.scope)
  <2>1. s2.scope = t.scope
    BY <1>3, <1>7 DEF SameRight
  <2>2. CASE "release" \in t.act
    BY <1>2, <1>7, <1>8, <2>1, <2>2, RetryHolds DEF RightCommand, Rest, SameLeft, SameMask
  <2>3. CASE "release" \notin t.act
    BY <1>2, <1>3, <1>7, <2>1, <2>3
    DEF Rest, SameLeft, SameRight, SameMask, Owned, RightOwned
  <2>. QED  BY <2>2, <2>3
<1> HIDE DEF s3
<1>10. Owned(s3) /\ s3.fsm = s2.fsm
  BY <1>7, <1>9 DEF Owned, LeftOwned, RightOwned, MaskOwned, SameLeft, SameMask, Holding, Holds,
     Active
<1>11. "press" \in t.act => /\ Rest(s3, OpenScope(s3, p)) /\ Owned(OpenScope(s3, p))
                           /\ OpenScope(s3, p).fsm = s3.fsm
  BY <1>2, <1>9, <1>10, OpenScopeIs
<1>. QED  BY <1>1, <1>7, <1>9, <1>10, <1>11 DEF Rest

-----------------------------------------------------------------------------
(* The masks of a shot.                                                    *)
LEMMA UnmaskedIs ==
  ASSUME NEW s \in States, MaskOwned(s)
  PROVE  \A t \in {s, Unmask(s)} : MaskCommand(s, t) /\ t \in States /\ MaskOwned(t)
<1>1. MaskCommand(s, s) /\ MaskCommand(s, Unmask(s))
  BY UnmaskIs, NoCommand
<1>. QED  BY <1>1 DEF MaskCommand, Rest

LEMMA KeepMaskedIs ==
  ASSUME NEW s \in States, MaskOwned(s), NEW p, NEW zone
  PROVE  MaskCommand(s, KeepMasked(s, p, zone))
<1> DEFINE s1 == IF Active(s) /\ ~LastingOn(s) THEN Unmask(s) ELSE s
           s2 == IF Expires /\ IsStale(s1.stop) THEN Unmask(s1) ELSE s1
<1>1. KeepMasked(s, p, zone) \in
        {IF LastingOn(s) THEN Unmask(s) ELSE s,
         IF Active(s2) THEN s2 ELSE MaskAs(s2, Lasting)}
  BY DEF KeepMasked, If
<1>2. s1 \in {s, Unmask(s)} /\ (IF LastingOn(s) THEN Unmask(s) ELSE s) \in {s, Unmask(s)}
  OBVIOUS
<1>3. s2 \in {s1, Unmask(s1)}
  OBVIOUS
<1> HIDE DEF s1, s2
<1>4. MaskCommand(s, s1) /\ s1 \in States /\ MaskOwned(s1)
      /\ MaskCommand(s, IF LastingOn(s) THEN Unmask(s) ELSE s)
  BY <1>2, UnmaskedIs
<1>5. MaskCommand(s1, s2) /\ s2 \in States /\ MaskOwned(s2)
  BY <1>3, <1>4, UnmaskedIs
<1>6. MaskCommand(s2, MaskAs(s2, Lasting)) /\ MaskCommand(s2, s2)
  BY <1>5, StopsAre, MaskAsIs, NoCommand
<1>7. MaskCommand(s, s2) /\ MaskCommand(s, MaskAs(s2, Lasting))
  BY <1>4, <1>5, <1>6, CommandTwice
<1>. QED  BY <1>1, <1>4, <1>7

LEMMA PrepareIs ==
  ASSUME NEW s \in States, MaskOwned(s)
  PROVE  MaskCommand(s, Prepare(s))
<1> DEFINE t == IF Active(s) THEN Unmask(s) ELSE s
<1>1. Prepare(s) \in {t, MaskAs(t, Prepared)}
  BY DEF Prepare, If
<1>2. t \in {s, Unmask(s)}
  OBVIOUS
<1> HIDE DEF t
<1>3. MaskCommand(s, t) /\ t \in States
  BY <1>2, UnmaskedIs
<1>4. MaskCommand(t, MaskAs(t, Prepared))
  BY <1>3, StopsAre, MaskAsIs
<1>. QED  BY <1>1, <1>3, <1>4, CommandTwice

LEMMA MaskedIs ==
  ASSUME NEW s \in States, MaskOwned(s), NEW p, NEW act
  PROVE  MaskCommand(s, Masked(s, p, act))
<1>1. PICK s1 \in {s, EndPreparing(s)} :
        LET s2 == IF "prepare" \in act /\ Timed(p) THEN Prepare(s1) ELSE s1
        IN Masked(s, p, act) \in {s2, Prepare(s2)}
  BY DEF Masked, If
<1>2. MaskCommand(s, s1)
  BY EndPreparingIs, NoCommand
<1>3. s1 \in States /\ MaskOwned(s1)
  BY <1>2 DEF MaskCommand, Rest
<1>4. PICK s2 \in {s1, Prepare(s1)} : Masked(s, p, act) \in {s2, Prepare(s2)}
  BY <1>1
<1>5. MaskCommand(s1, s2)
  BY <1>3, PrepareIs, NoCommand
<1>6. s2 \in States /\ MaskOwned(s2)
  BY <1>5 DEF MaskCommand, Rest
<1>7. MaskCommand(s2, Prepare(s2)) /\ MaskCommand(s, s2)
  BY <1>2, <1>5, <1>6, PrepareIs, CommandTwice
<1>. QED  BY <1>4, <1>7, CommandTwice

-----------------------------------------------------------------------------
(* A shot.  No trigger is pressed and no scope held once a weapon switch   *)
(* was asked for.                                                          *)
BusyClean(s) == Busy(s) => ~Pressed(s.fsm) /\ ~Holding(s)

Acted(s, t) ==
    /\ t \in States /\ t.last = s.last /\ t.fault = s.fault /\ t.took = s.took
    /\ Owned(t) /\ BusyClean(t)
    /\ t.fsm = s.fsm \/ ~Pressed(t.fsm)

LEMMA ActedOf ==
  ASSUME NEW s \in States, ~Busy(s), NEW t, Rest(s, t), Owned(t),
         t.fsm = s.fsm \/ ~Pressed(t.fsm)
  PROVE  Acted(s, t)
BY DEF Acted, Rest, BusyClean, Busy

LEMMA ActedAfter ==
  ASSUME NEW s, NEW t, NEW u, Rest(s, t), t.fsm = s.fsm \/ ~Pressed(t.fsm), Acted(t, u)
  PROVE  Acted(s, u)
BY DEF Acted, Rest

LEMMA RefusedIs ==
  ASSUME NEW s \in States, RightOwned(s), MaskOwned(s), ~LeftDown(s)
  PROVE  Rest(s, Refused(s)) /\ Owned(Refused(s)) /\ ~Pressed(Refused(s).fsm)
<1> DEFINE t == ResetTrigger(s)
<1>1. Refused(s) \in {t, Unmask(t)}
  BY DEF Refused, If
<1>2. /\ Rest(s, t) /\ SameRight(s, t) /\ SameMask(s, t) /\ ~Pressed(t.fsm) /\ ~LeftDown(t)
      /\ t \in States
  BY ResetTriggerIs DEF Rest
<1> HIDE DEF t
<1>3. Owned(t)
  BY <1>2 DEF Owned, LeftOwned, RightOwned, MaskOwned, SameRight, SameMask, Holding, Active
<1>4. MaskCommand(t, Unmask(t)) /\ Owned(Unmask(t))
  BY <1>2, <1>3, UnmaskIs, CommandOwned
<1>. QED  BY <1>1, <1>2, <1>3, <1>4 DEF MaskCommand, Rest, SameLeft

LEMMA CompleteSwitchIs ==
  ASSUME NEW s \in States, RightOwned(s), MaskOwned(s), ~Busy(s)
  PROVE  Acted(s, ResetTrigger(CompleteSwitch(s)))
<1> DEFINE t == LeftUp(s)
           u == LetGo(t)
           v == [u EXCEPT !.tapped = FALSE]
           w == [v EXCEPT !.switch = 1]
<1>1. /\ Rest(s, t) /\ SameRight(s, t) /\ SameMask(s, t) /\ ~LeftDown(t) /\ t \in States
      /\ RightOwned(t)
  <2>1. Rest(s, t) /\ SameRight(s, t) /\ SameMask(s, t) /\ ~LeftDown(t)
    BY LeftUpIs
  <2>. QED  BY <2>1 DEF Rest, SameRight, RightOwned, Holding
<1>2. CompleteSwitch(s) = Request(v)
  BY DEF CompleteSwitch, FinishSwitch31Shot
<1> HIDE DEF t
<1>3. RightCommand(t, u) /\ ~RightDown(u) /\ u.scope = ForceRelease(t.scope).scope
      /\ u \in States
  BY <1>1, LetGoIs DEF RightCommand, Rest
<1>4. ~u.scope.engaged /\ ~u.scope.pending
  <2>1. t.scope \in Scopes
    BY <1>1 DEF States
  <2>. QED  BY <1>3, <2>1, ForceReleaseIs
<1> HIDE DEF u
<1>5. /\ v \in States /\ v.last = u.last /\ v.switch = u.switch /\ v.fault = u.fault
      /\ v.took = u.took /\ v.fsm = u.fsm /\ v.scope = u.scope /\ v.stop = u.stop
      /\ v.dev = u.dev /\ v.doubt = u.doubt
  BY <1>3 DEF States
<1> HIDE DEF v
<1>6. /\ w \in States /\ w.last = v.last /\ w.fault = v.fault
      /\ w.took = v.took /\ w.fsm = v.fsm /\ w.scope = v.scope /\ w.stop = v.stop
      /\ w.dev = v.dev /\ w.doubt = v.doubt
  BY <1>5 DEF States
<1>7. Request(v) \in {v, w}
  BY DEF Request
<1> HIDE DEF w
<1> DEFINE x == Request(v)
<1>8. /\ x \in States /\ x.last = s.last /\ x.fault = s.fault /\ x.took = s.took
      /\ ~LeftDown(x) /\ ~RightDown(x) /\ SameMask(s, x) /\ ~x.scope.engaged
      /\ ~x.scope.pending
  BY <1>1, <1>3, <1>4, <1>5, <1>6, <1>7
  DEF RightCommand, Rest, SameLeft, SameMask, LeftDown, RightDown, MaskOn
<1> HIDE DEF x
<1>9. /\ Rest(x, ResetTrigger(x)) /\ SameRight(x, ResetTrigger(x)) /\ SameMask(x, ResetTrigger(x))
      /\ ~Pressed(ResetTrigger(x).fsm) /\ (LeftDown(ResetTrigger(x)) <=> LeftDown(x))
  BY <1>8, ResetTriggerIs
<1>10. Acted(s, ResetTrigger(x))
  BY <1>8, <1>9
  DEF Acted, BusyClean, Rest, SameRight, SameMask, Owned, LeftOwned, RightOwned, MaskOwned,
      Holding, Active
<1>. QED  BY <1>2, <1>10 DEF x

LEMMA SentIs ==
  ASSUME NEW s \in States, Owned(s), ~Busy(s), NEW p, IsProfile(p)
  PROVE  Acted(s, Sent(s, p))
<1> DEFINE n == [s EXCEPT !.stop = Fired(p.after)]
           s1 == IF Timed(p) /\ Preparing(s) THEN n ELSE s
           s2 == IF IsOver(s1.stop) THEN Unmask(s1) ELSE s1
<1>1. Sent(s, p) = IF p.switch /\ Keyboard THEN ResetTrigger(CompleteSwitch(s2)) ELSE s2
  BY DEF Sent, If
<1>2. MaskCommand(s, n)
  <2>1. Fired(p.after) \in Stops /\ Fired(p.after).phase = "after"
    BY StopsAre DEF IsProfile
  <2>. QED  BY <2>1, StopsAre, StopSet
<1> HIDE DEF n
<1>3. MaskCommand(s, s1) /\ s1 \in States /\ MaskOwned(s1)
  <2>1. MaskCommand(s, s1)
    BY <1>2, NoCommand DEF Owned
  <2>. QED  BY <2>1 DEF MaskCommand, Rest
<1> HIDE DEF s1
<1>4. MaskCommand(s1, s2)
  BY <1>3, UnmaskIs, NoCommand
<1> HIDE DEF s2
<1>5. MaskCommand(s, s2)
  BY <1>3, <1>4, CommandTwice
<1>6. Owned(s2) /\ s2 \in States /\ ~Busy(s2)
  <2>1. Owned(s2) /\ s2 \in States
    BY <1>5, CommandOwned
  <2>. QED  BY <1>5, <2>1 DEF MaskCommand, Rest, Busy
<1>7. Acted(s2, ResetTrigger(CompleteSwitch(s2)))
  BY <1>6, CompleteSwitchIs DEF Owned
<1>8. Rest(s, s2) /\ s2.fsm = s.fsm
  BY <1>5 DEF MaskCommand, SameLeft
<1>9. Acted(s, s2)
  BY <1>6, <1>8, ActedOf DEF Rest, Busy
<1>. QED  BY <1>1, <1>7, <1>8, <1>9, ActedAfter

LEMMA ShotIs ==
  ASSUME NEW s \in States, RightOwned(s), MaskOwned(s), ~Busy(s), NEW p, IsProfile(p), NEW act,
         LeftDown(s) => Pressed(s.fsm) \/ "release" \in act,
         "press" \in act => ~LeftDown(s) /\ Pressed(s.fsm) /\ "release" \notin act
  PROVE  Acted(s, Shot(s, p, act))
<1>1. /\ Rest(s, LeftUp(s)) /\ SameRight(s, LeftUp(s)) /\ SameMask(s, LeftUp(s))
      /\ LeftUp(s).fsm = s.fsm /\ ~LeftDown(LeftUp(s))
  BY LeftUpIs
<1>2. CASE "press" \notin act /\ "release" \in act
  <2>1. Shot(s, p, act) = LeftUp(s)
    BY <1>2 DEF Shot, If, CompleteShot
  <2>2. Owned(LeftUp(s))
    BY <1>1 DEF Owned, LeftOwned, RightOwned, MaskOwned, SameRight, SameMask, Holding, Active
  <2>. QED  BY <1>1, <2>1, <2>2, ActedOf
<1>3. CASE "press" \notin act /\ "release" \notin act
  <2>1. Shot(s, p, act) = s
    BY <1>3 DEF Shot, If, CompleteShot
  <2>2. Owned(s) /\ Rest(s, s)
    BY <1>3 DEF Owned, LeftOwned, Rest
  <2>. QED  BY <2>1, <2>2, ActedOf
<1>4. CASE "press" \in act
  <2> DEFINE d == Send(s, "leftDown")
  <2>1. Shot(s, p, act) = IF ~StopReady(s, p) THEN Refused(s)
                          ELSE IF ~Works(s, "leftDown") THEN Refused(d) ELSE Sent(d, p)
    BY <1>4 DEF Shot, If
  <2>2. /\ Rest(s, d) /\ SameRight(s, d) /\ SameMask(s, d) /\ d.fsm = s.fsm
        /\ ~Works(s, "leftDown") => ~LeftDown(d)
    BY DEF States, Rest, SameRight, SameMask, RightDown, MaskOn, LeftDown, Send, Press, Felt, Effect, Works, Part
  <2> HIDE DEF d
  <2>3. /\ d \in States /\ RightOwned(d) /\ MaskOwned(d) /\ LeftOwned(d) /\ ~Busy(d)
    BY <1>4, <2>2
    DEF Rest, LeftOwned, RightOwned, MaskOwned, SameRight, SameMask, Holding, Active, Busy
  <2>4. Acted(s, Refused(s))
    <3>1. Rest(s, Refused(s)) /\ Owned(Refused(s)) /\ ~Pressed(Refused(s).fsm)
      BY <1>4, RefusedIs
    <3>. QED  BY <3>1, ActedOf
  <2>5. ~Works(s, "leftDown") => Acted(d, Refused(d))
    <3>1. SUFFICES ASSUME ~Works(s, "leftDown") PROVE Acted(d, Refused(d))
      OBVIOUS
    <3>2. Rest(d, Refused(d)) /\ Owned(Refused(d)) /\ ~Pressed(Refused(d).fsm)
      BY <2>2, <2>3, <3>1, RefusedIs
    <3>. QED  BY <2>3, <3>2, ActedOf
  <2>6. Acted(d, Sent(d, p))
    BY <2>3, SentIs DEF Owned
  <2>. QED  BY <2>1, <2>2, <2>4, <2>5, <2>6, ActedAfter
<1>. QED  BY <1>2, <1>3, <1>4

-----------------------------------------------------------------------------
(* What is owned stays owned, whatever becomes of the trigger.             *)
Kept(s, t) ==
    /\ t \in States /\ t.last = s.last /\ t.fault = s.fault /\ t.took = s.took
    /\ Owned(t) /\ BusyClean(t)

(* A trigger that is pressed was kept pressed by its grace, unless its     *)
(* target was hit.                                                         *)
Held(f, g, hit, grace) ==
    Pressed(g) => /\ g.mode = f.mode
                  /\ f.mode = "smart" =>
                       IF hit THEN g.lost = Never
                       ELSE Pressed(f) /\ g.lost = Lost(f) /\ g.lost < grace

LEMMA FireIs ==
  ASSUME NEW s \in States, Owned(s), ~Busy(s), NEW p, IsProfile(p), NEW hit \in BOOLEAN, NEW zone
  PROVE  /\ Kept(s, Fire(s, p, hit, zone))
         /\ Held(s.fsm, Fire(s, p, hit, zone).fsm, hit, p.grace)
<1> DEFINE ready == Ready(s.scope, Allowed(p), p.scope)
           s1 == KeepMasked(s, p, zone)
           q  == [start |-> p.start, interval |-> p.interval, grace |-> p.grace,
                  before |-> Before(p),
                  duration |-> IF p.switch /\ Keyboard THEN Longer(p.duration, MinHold)
                               ELSE p.duration]
           t  == TickTrigger(s1.fsm, hit, ready, q)
           u  == [s1 EXCEPT !.fsm = t.fsm]
           v  == Masked(u, p, t.act)
           w  == Shot(v, p, t.act)
<1>1. Fire(s, p, hit, zone) = w
  BY DEF Fire, Pulls
<1>2. TimesOf(q) /\ q.grace = p.grace
  <2>1. p.duration \in 0..Horizon /\ MinHold \in 0..Horizon
    BY OutputAssumption DEF IsProfile
  <2>2. Longer(p.duration, MinHold) \in 0..Horizon
    BY <2>1, LongerIs
  <2>3. Before(p) \in 0..Horizon /\ {p.start, p.interval, p.grace} \subseteq 0..Horizon
    BY ZeroIsTime DEF Before, IsProfile
  <2>. QED  BY <2>1, <2>2, <2>3 DEF TimesOf
<1>3. MaskCommand(s, s1) /\ s1 \in States /\ Owned(s1)
  <2>1. MaskCommand(s, s1)
    BY KeepMaskedIs DEF Owned
  <2>. QED  BY <2>1, CommandOwned
<1>4. ready \in BOOLEAN
  BY DEF Ready
<1>5. s1.fsm = s.fsm /\ s.fsm \in Triggers
  BY <1>3 DEF MaskCommand, SameLeft, States
<1> HIDE DEF s1, q, ready
<1>6. /\ t.fsm \in Triggers /\ t.fsm.mode = s.fsm.mode
      /\ Pressed(s.fsm) /\ ~Pressed(t.fsm) => "release" \in t.act
      /\ "press" \in t.act => ~Pressed(s.fsm) /\ Pressed(t.fsm) /\ "release" \notin t.act
      /\ Pressed(t.fsm) /\ s.fsm.mode = "smart" =>
           IF hit THEN t.fsm.lost = Never
           ELSE Pressed(s.fsm) /\ t.fsm.lost = Lost(s.fsm) /\ t.fsm.lost < p.grace
  BY <1>2, <1>4, <1>5, TickTriggerIs
<1> HIDE DEF t
<1>7. /\ Rest(s1, u) /\ SameRight(s1, u) /\ SameMask(s1, u) /\ u.fsm = t.fsm
      /\ (LeftDown(u) <=> LeftDown(s1)) /\ u \in States
  BY <1>3, <1>6, FsmSet DEF Rest
<1> HIDE DEF u
<1>8. RightOwned(u) /\ MaskOwned(u)
  BY <1>3, <1>7 DEF Owned, RightOwned, MaskOwned, SameRight, SameMask, Holding, Active
<1>9. MaskCommand(u, v) /\ v \in States
  BY <1>7, <1>8, MaskedIs DEF MaskCommand, Rest
<1> HIDE DEF v
<1>10. /\ RightOwned(v) /\ MaskOwned(v) /\ v.fsm = t.fsm /\ (LeftDown(v) <=> LeftDown(s1))
       /\ Rest(s, v) /\ ~Busy(v)
  BY <1>3, <1>7, <1>8, <1>9
  DEF MaskCommand, Rest, SameLeft, SameRight, RightOwned, Holding, Busy
<1>11. Acted(v, w)
  <2>1. LeftDown(v) => Pressed(s.fsm)
    BY <1>3, <1>5, <1>10 DEF Owned, LeftOwned
  <2>2. /\ LeftDown(v) => Pressed(v.fsm) \/ "release" \in t.act
        /\ "press" \in t.act => ~LeftDown(v) /\ Pressed(v.fsm) /\ "release" \notin t.act
    BY <1>6, <1>10, <2>1
  <2>. QED  BY <1>9, <1>10, <2>2, ShotIs
<1> HIDE DEF w
<1>12. Kept(s, w)
  BY <1>10, <1>11 DEF Kept, Acted, Rest
<1>13. Held(s.fsm, w.fsm, hit, p.grace)
  BY <1>6, <1>10, <1>11 DEF Held, Acted
<1>. QED  BY <1>1, <1>12, <1>13

LEMMA HoldFireIs ==
  ASSUME NEW s \in States, Owned(s), ~Busy(s), NEW p
  PROVE  Kept(s, HoldFire(s, p)) /\ ~Pressed(HoldFire(s, p).fsm)
<1> DEFINE t == KeepMasked(s, p, FALSE)
           r == ResetTrigger(t)
           s1 == IF Pressed(s.fsm) THEN LeftUp(r) ELSE r
<1>1. HoldFire(s, p) \in {s1, EndPreparing(s1)}
  BY DEF HoldFire, If, CompleteShot
<1>2. MaskCommand(s, t) /\ t \in States /\ Owned(t)
  <2>1. MaskCommand(s, t)
    BY KeepMaskedIs DEF Owned
  <2>. QED  BY <2>1, CommandOwned
<1> HIDE DEF t
<1>3. /\ Rest(t, r) /\ SameRight(t, r) /\ SameMask(t, r) /\ ~Pressed(r.fsm)
      /\ (LeftDown(r) <=> LeftDown(t)) /\ r \in States
  BY <1>2, ResetTriggerIs DEF Rest
<1> HIDE DEF r
<1>4. /\ Rest(r, LeftUp(r)) /\ SameRight(r, LeftUp(r)) /\ SameMask(r, LeftUp(r))
      /\ LeftUp(r).fsm = r.fsm /\ ~LeftDown(LeftUp(r))
  BY <1>3, LeftUpIs
<1>5. Rest(s, s1) /\ s1 \in States /\ Owned(s1) /\ ~Pressed(s1.fsm)
  <2>1. CASE Pressed(s.fsm)
    BY <1>2, <1>3, <1>4, <2>1
    DEF MaskCommand, Rest, SameLeft, SameRight, SameMask, Owned, LeftOwned, RightOwned, MaskOwned,
        Holding, Active
  <2>2. CASE ~Pressed(s.fsm)
    BY <1>2, <1>3, <2>2
    DEF MaskCommand, Rest, SameLeft, SameRight, SameMask, Owned, LeftOwned, RightOwned, MaskOwned,
        Holding, Active
  <2>. QED  BY <2>1, <2>2
<1> HIDE DEF s1
<1>6. MaskCommand(s1, EndPreparing(s1)) /\ Owned(EndPreparing(s1))
  BY <1>5, EndPreparingIs, CommandOwned
<1>. QED  BY <1>1, <1>5, <1>6
     DEF Kept, Rest, MaskCommand, SameLeft, BusyClean, Busy

LEMMA AfterZoneIs ==
  ASSUME NEW f \in Triggers, NEW hit \in BOOLEAN, NEW grace \in 0..Horizon
  PROVE  LET g == AfterZone(f, hit, grace) IN
         /\ g \in Triggers /\ g.mode = f.mode /\ (Pressed(g) <=> Pressed(f))
         /\ ~hit => Lost(g) = Lost(f)
<1>1. CASE hit
  BY <1>1 DEF AfterZone, Triggers, Pressed
<1>2. CASE ~hit
  <2>1. AfterZone(f, hit, grace) = Missed(f, grace)
    BY <1>2 DEF AfterZone
  <2>2. /\ Missed(f, grace) \in Triggers /\ Missed(f, grace).mode = f.mode
        /\ Pressed(Missed(f, grace)) <=> Pressed(f)
        /\ Missed(f, grace).lost \in {f.lost, 0}
        /\ Missed(f, grace).lost # f.lost => f.lost = Never
    BY MissedIs
  <2>. QED  BY <1>2, <2>1, <2>2 DEF Lost
<1>. QED  BY <1>1, <1>2

LEMMA ActIs ==
  ASSUME NEW s \in States, Owned(s), ~Busy(s), NEW p, IsProfile(p), NEW obs
  PROVE  /\ Kept(s, Act(s, p, obs))
         /\ Held(s.fsm, Act(s, p, obs).fsm, obs = "zone", p.grace)
<1> DEFINE hit   == obs = "zone" /\ p.enabled
           grace == IF p.enabled THEN p.grace ELSE 0
           zone  == ZoneHeld(s.fsm, hit, grace)
           f     == AfterZone(s.fsm, hit, grace)
           s0    == [s EXCEPT !.fsm = f]
           s1    == Scoped(s0, p, zone)
           s2    == IF p.enabled THEN Fire(s1, p, hit, zone) ELSE HoldFire(s1, p)
<1>1. Act(s, p, obs) \in {s2, Unmask(s2)}
  BY DEF Act, If
<1>2. hit \in BOOLEAN /\ grace \in 0..Horizon /\ s.fsm \in Triggers /\ zone \in BOOLEAN
  BY ZeroIsTime DEF States, IsProfile, ZoneHeld, KeepsOn
<1>3. p.enabled => (hit <=> obs = "zone")
  OBVIOUS
<1> HIDE DEF hit, grace, zone
<1>4. /\ f \in Triggers /\ f.mode = s.fsm.mode /\ (Pressed(f) <=> Pressed(s.fsm))
      /\ ~hit => Lost(f) = Lost(s.fsm)
  BY <1>2, AfterZoneIs
<1> HIDE DEF f
<1>5. /\ Rest(s, s0) /\ SameRight(s, s0) /\ SameMask(s, s0) /\ s0.fsm = f
      /\ (LeftDown(s0) <=> LeftDown(s)) /\ s0 \in States
  BY <1>4, FsmSet DEF Rest
<1> HIDE DEF s0
<1>6. Owned(s0)
  BY <1>4, <1>5
  DEF Owned, LeftOwned, RightOwned, MaskOwned, SameRight, SameMask, Holding, Active
<1>7. /\ Rest(s0, s1) /\ Owned(s1) /\ (s1.fsm = s0.fsm \/ ~Pressed(s1.fsm))
      /\ s1.fsm.mode = s0.fsm.mode /\ s1 \in States
  BY <1>2, <1>5, <1>6, ScopedIs DEF Rest
<1> HIDE DEF s1
<1>8. ~Busy(s1) /\ Rest(s, s1)
  BY <1>5, <1>7 DEF Rest, Busy
<1>9. Kept(s1, s2) /\ Held(s1.fsm, s2.fsm, hit, p.grace) /\ (Pressed(s2.fsm) => p.enabled)
  <2>1. CASE p.enabled
    BY <1>2, <1>7, <1>8, <2>1, FireIs
  <2>2. CASE ~p.enabled
    BY <1>7, <1>8, <2>2, HoldFireIs DEF Held
  <2>. QED  BY <2>1, <2>2
<1> HIDE DEF s2
<1>10. Kept(s, s2)
  BY <1>8, <1>9 DEF Kept, Rest
<1>11. Held(s.fsm, s2.fsm, obs = "zone", p.grace)
  <2>1. SUFFICES ASSUME Pressed(s2.fsm)
                 PROVE  /\ s2.fsm.mode = s.fsm.mode
                        /\ s.fsm.mode = "smart" =>
                             IF obs = "zone" THEN s2.fsm.lost = Never
                             ELSE Pressed(s.fsm) /\ s2.fsm.lost = Lost(s.fsm)
                                  /\ s2.fsm.lost < p.grace
    BY DEF Held
  <2>2. s1.fsm.mode = s.fsm.mode
    BY <1>4, <1>5, <1>7
  <2>3. CASE hit
    BY <1>3, <1>9, <2>1, <2>2, <2>3 DEF Held
  <2>4. CASE ~hit
    BY <1>3, <1>4, <1>5, <1>7, <1>9, <2>1, <2>2, <2>4 DEF Held
  <2>. QED  BY <2>3, <2>4
<1>12. MaskCommand(s2, Unmask(s2)) /\ Owned(Unmask(s2))
  BY <1>10, UnmaskIs, CommandOwned DEF Kept
<1>13. Kept(s, Unmask(s2)) /\ Unmask(s2).fsm = s2.fsm
  BY <1>10, <1>12
  DEF Kept, MaskCommand, Rest, SameLeft, SameRight, BusyClean, Busy, Holding
<1>. QED  BY <1>1, <1>10, <1>11, <1>13

-----------------------------------------------------------------------------
(* A target that is lost, or must not be shot at.                          *)
LEMMA LetGoOnLossIs ==
  ASSUME NEW s \in States, Owned(s), NEW loss,
         loss.fsm \in Triggers, loss.right.scope \in Scopes,
         loss.keeps /\ Pressed(s.fsm) => Pressed(loss.fsm),
         "release" \notin loss.right.act /\ Holds(s.scope) => Holds(loss.right.scope)
  PROVE  /\ Rest(s, LetGoOnLoss(s, loss)) /\ Owned(LetGoOnLoss(s, loss))
         /\ LetGoOnLoss(s, loss).fsm = loss.fsm
<1> DEFINE k0 == [s EXCEPT !.fsm = loss.fsm]
           k == [k0 EXCEPT !.scope = loss.right.scope]
           r == IF "release" \in loss.right.act THEN RightUpRetried(k) ELSE k
           u == IF Pressed(s.fsm) /\ ~loss.keeps THEN LeftUp(r) ELSE r
<1>1. LetGoOnLoss(s, loss) = EndStop(u)
  <2>1. k = [s EXCEPT !.fsm = loss.fsm, !.scope = loss.right.scope]
    OBVIOUS
  <2>. QED  BY <2>1 DEF LetGoOnLoss, If, CompleteShot
<1>2. /\ Rest(s, k0) /\ SameRight(s, k0) /\ SameMask(s, k0) /\ k0.fsm = loss.fsm
      /\ (LeftDown(k0) <=> LeftDown(s)) /\ k0 \in States
  BY FsmSet DEF Rest
<1> HIDE DEF k0
<1>3. /\ Rest(k0, k) /\ SameLeft(k0, k) /\ SameMask(k0, k) /\ k.scope = loss.right.scope
      /\ (RightDown(k) <=> RightDown(k0)) /\ k \in States
  BY <1>2, ScopeSet DEF Rest
<1> HIDE DEF k
<1>4. /\ RightCommand(k, RightUpRetried(k)) /\ ~RightDown(RightUpRetried(k))
  BY <1>3, RightUpRetriedIs
<1>5. /\ Rest(s, r) /\ r \in States /\ r.fsm = loss.fsm /\ (LeftDown(r) <=> LeftDown(s))
      /\ RightOwned(r) /\ SameMask(s, r)
  <2>1. CASE "release" \in loss.right.act
    BY <1>2, <1>3, <1>4, <2>1
    DEF RightCommand, Rest, SameLeft, SameRight, SameMask, RightOwned
  <2>2. CASE "release" \notin loss.right.act
    BY <1>2, <1>3, <2>2
    DEF Rest, SameLeft, SameRight, SameMask, Owned, RightOwned, Holding, Holds
  <2>. QED  BY <2>1, <2>2
<1> HIDE DEF r
<1>6. /\ Rest(r, LeftUp(r)) /\ SameRight(r, LeftUp(r)) /\ SameMask(r, LeftUp(r))
      /\ LeftUp(r).fsm = r.fsm /\ ~LeftDown(LeftUp(r))
  BY <1>5, LeftUpIs
<1>7. Rest(s, u) /\ u \in States /\ u.fsm = loss.fsm /\ Owned(u)
  <2>1. CASE Pressed(s.fsm) /\ ~loss.keeps
    BY <1>5, <1>6, <2>1
    DEF Rest, SameRight, SameMask, Owned, LeftOwned, RightOwned, MaskOwned, Holding, Active
  <2>2. CASE ~(Pressed(s.fsm) /\ ~loss.keeps)
    BY <1>5, <2>2
    DEF Rest, SameMask, Owned, LeftOwned, MaskOwned, Active
  <2>. QED  BY <2>1, <2>2
<1> HIDE DEF u
<1>8. MaskCommand(u, EndStop(u)) /\ Owned(EndStop(u))
  BY <1>7, EndStopIs, CommandOwned DEF Owned
<1>. QED  BY <1>1, <1>7, <1>8 DEF MaskCommand, Rest, SameLeft

LEMMA ReleaseTargetIs ==
  ASSUME NEW s \in States, Owned(s), NEW p, IsProfile(p), NEW grace \in BOOLEAN
  PROVE  LET t == ReleaseTargetButtons(s, p, grace) IN
         /\ Rest(s, t) /\ Owned(t) /\ Held(s.fsm, t.fsm, FALSE, p.grace)
         /\ ~grace \/ ~p.enabled => ~Pressed(t.fsm)
<1> DEFINE keeps == s.scope.mode = p.scope /\ KeepsOn(s.fsm, p.grace)
           loss == ReleaseOnTargetLoss(s, p)
           all == Everything(s)
<1>1. s.fsm \in Triggers /\ s.scope \in Scopes /\ p.grace \in 0..Horizon /\ p.scope \in 0..2
  BY DEF States, IsProfile
<1>2. /\ all.fsm \in Triggers /\ ~Pressed(all.fsm) /\ all.keeps = FALSE
      /\ all.right.scope \in Scopes
      /\ "release" \notin all.right.act => ~Holds(s.scope)
  <2>1. all.fsm = Reset(s.fsm) /\ all.keeps = FALSE /\ all.right = ForceRelease(s.scope)
    BY DEF Everything
  <2>2. Reset(s.fsm) \in Triggers /\ ~Pressed(Reset(s.fsm))
    BY <1>1, ResetIs
  <2>3. /\ ForceRelease(s.scope).scope \in Scopes
        /\ "release" \in ForceRelease(s.scope).act <=> Holds(s.scope)
    BY <1>1, ForceReleaseIs DEF Holds
  <2>. QED  BY <2>1, <2>2, <2>3
<1>3. /\ loss.fsm \in Triggers /\ (loss.keeps /\ Pressed(s.fsm) => Pressed(loss.fsm))
      /\ Held(s.fsm, loss.fsm, FALSE, p.grace)
  <2>1. loss.fsm = (IF keeps THEN Missed(s.fsm, p.grace) ELSE Reset(s.fsm)) /\ loss.keeps = keeps
    BY DEF ReleaseOnTargetLoss
  <2>2. Reset(s.fsm) \in Triggers /\ ~Pressed(Reset(s.fsm))
    BY <1>1, ResetIs
  <2>3. /\ Missed(s.fsm, p.grace) \in Triggers /\ Missed(s.fsm, p.grace).mode = s.fsm.mode
        /\ Pressed(Missed(s.fsm, p.grace)) <=> Pressed(s.fsm)
        /\ Missed(s.fsm, p.grace).lost =
             IF Pressed(s.fsm) /\ s.fsm.mode = "smart" /\ p.grace > 0 /\ s.fsm.lost = Never
             THEN 0 ELSE s.fsm.lost
    BY <1>1, MissedIs
  <2>4. CASE keeps
    <3>1. Pressed(s.fsm) /\ (s.fsm.mode = "smart" => Lost(s.fsm) < p.grace)
      BY <2>4 DEF KeepsOn, Lost
    <3>2. s.fsm.mode = "smart" => Missed(s.fsm, p.grace).lost = Lost(s.fsm)
      BY <1>1, <2>3, <3>1 DEF Lost
    <3> HIDE DEF loss, keeps
    <3>. QED  BY <2>1, <2>3, <2>4, <3>1, <3>2 DEF Held
  <2>5. CASE ~keeps
    <3> HIDE DEF loss, keeps
    <3>. QED  BY <2>1, <2>2, <2>5 DEF Held
  <2>. QED  BY <2>4, <2>5
<1>4. /\ loss.right.scope \in Scopes
      /\ "release" \notin loss.right.act /\ Holds(s.scope) => Holds(loss.right.scope)
  <2>1. loss.right = TickScope(s.scope, keeps /\ s.scope.engaged, TRUE, p.scope, 0)
    BY DEF ReleaseOnTargetLoss
  <2>2. (keeps /\ s.scope.engaged) \in BOOLEAN
    OBVIOUS
  <2> HIDE DEF loss, keeps
  <2>. QED  BY <1>1, <2>1, <2>2, ZeroIsTime, TickScopeIs
<1>5. ReleaseTargetButtons(s, p, grace) =
        LetGoOnLoss(s, IF grace /\ p.enabled /\ ~p.switch THEN loss ELSE all)
  BY DEF ReleaseTargetButtons
<1> HIDE DEF loss, all, keeps
<1>6. CASE grace /\ p.enabled /\ ~p.switch
  <2>1. /\ Rest(s, LetGoOnLoss(s, loss)) /\ Owned(LetGoOnLoss(s, loss))
        /\ LetGoOnLoss(s, loss).fsm = loss.fsm
    BY <1>3, <1>4, LetGoOnLossIs
  <2>. QED  BY <1>3, <1>5, <1>6, <2>1
<1>7. CASE ~(grace /\ p.enabled /\ ~p.switch)
  <2>1. /\ Rest(s, LetGoOnLoss(s, all)) /\ Owned(LetGoOnLoss(s, all))
        /\ LetGoOnLoss(s, all).fsm = all.fsm
    BY <1>2, LetGoOnLossIs
  <2>. QED  BY <1>2, <1>5, <1>7, <2>1 DEF Held
<1>. QED  BY <1>6, <1>7

-----------------------------------------------------------------------------
(* What a batch of detections makes of a trigger that was pressed.         *)
Outlasts(f, g, obs, grace) ==
    Pressed(g) /\ g.mode = "smart" =>
        IF obs = "zone" THEN g.lost = Never
        ELSE /\ Pressed(f) /\ f.mode = "smart"
             /\ g.lost = (IF obs \in Misses THEN Lost(f) ELSE f.lost)
             /\ obs \in Misses => g.lost < grace

LEMMA JudgeIs ==
  ASSUME NEW s \in States, Owned(s), ~Busy(s), NEW p, IsProfile(p), NEW obs \in Seen \ {"old", "late"}
  PROVE  Kept(s, Judge(s, p, obs)) /\ Outlasts(s.fsm, Judge(s, p, obs).fsm, obs, p.grace)
<1> DEFINE t == Configure(s, p)
           g == obs \notin {"seen", "zone"}
<1>1. Judge(s, p, obs) = IF obs \in {"turn", "lost"} THEN ReleaseTargetButtons(t, p, obs = "lost")
                         ELSE IF Nothing(t, p, obs) THEN ReleaseTargetButtons(t, p, g)
                         ELSE Act(t, p, obs)
  BY DEF Judge
<1>2. Rest(s, t) /\ Owned(t) /\ (t.fsm = s.fsm \/ ~Pressed(t.fsm)) /\ t \in States
  BY ConfigureIs DEF Rest
<1>3. Nothing(t, p, obs) /\ obs \in {"seen", "zone"} => ~p.enabled
  BY DEF Nothing
<1>4. p.grace \in 0..Horizon
  BY DEF IsProfile
<1> HIDE DEF t
<1>5. ~Busy(t)
  BY <1>2 DEF Rest, Busy
<1>6. ASSUME NEW grace \in BOOLEAN
      PROVE  LET r == ReleaseTargetButtons(t, p, grace) IN
             /\ Kept(s, r) /\ Held(t.fsm, r.fsm, FALSE, p.grace)
             /\ ~grace \/ ~p.enabled => ~Pressed(r.fsm)
  <2> DEFINE r == ReleaseTargetButtons(t, p, grace)
  <2>1. /\ Rest(t, r) /\ Owned(r) /\ Held(t.fsm, r.fsm, FALSE, p.grace)
        /\ ~grace \/ ~p.enabled => ~Pressed(r.fsm)
    BY <1>2, ReleaseTargetIs
  <2> HIDE DEF r
  <2>2. Kept(s, r)
    BY <1>2, <1>5, <2>1 DEF Kept, Rest, BusyClean, Busy
  <2>. QED  BY <2>1, <2>2 DEF r
<1>7. Kept(t, Act(t, p, obs)) /\ Held(t.fsm, Act(t, p, obs).fsm, obs = "zone", p.grace)
  BY <1>2, <1>5, ActIs
<1>8. Kept(s, Act(t, p, obs))
  BY <1>2, <1>7 DEF Kept, Rest
<1>9. CASE obs = "turn"
  <2>1. Judge(s, p, obs) = ReleaseTargetButtons(t, p, FALSE)
    BY <1>1, <1>9
  <2>. QED  BY <1>6, <2>1 DEF Outlasts
<1>10. CASE obs = "lost" \/ (Nothing(t, p, obs) /\ obs # "turn")
  <2> DEFINE grace == obs = "lost" \/ g
             r == ReleaseTargetButtons(t, p, grace)
  <2>1. Judge(s, p, obs) = r
    BY <1>1, <1>10
  <2>2. /\ Kept(s, r) /\ Held(t.fsm, r.fsm, FALSE, p.grace)
        /\ ~grace \/ ~p.enabled => ~Pressed(r.fsm)
    BY <1>6
  <2>3. obs \in {"seen", "zone"} => ~p.enabled
    BY <1>3, <1>10
  <2>4. obs \in Misses \cup {"zone"}
    BY <1>10 DEF Seen, Misses, Nothing
  <2> HIDE DEF r
  <2>5. Outlasts(s.fsm, r.fsm, obs, p.grace)
    BY <1>2, <2>2, <2>3, <2>4 DEF Outlasts, Held
  <2>. QED  BY <2>1, <2>2, <2>5
<1>11. CASE obs \notin {"turn", "lost"} /\ ~Nothing(t, p, obs)
  <2>1. Judge(s, p, obs) = Act(t, p, obs)
    BY <1>1, <1>11
  <2>2. obs \in Misses \cup {"zone"}
    BY <1>11 DEF Seen, Misses
  <2>3. Outlasts(s.fsm, Act(t, p, obs).fsm, obs, p.grace)
    BY <1>2, <1>7, <2>2 DEF Outlasts, Held
  <2>. QED  BY <1>8, <2>1, <2>3
<1>. QED  BY <1>9, <1>10, <1>11

IdleClean(s) == s.last = 0 => /\ ~Pressed(s.fsm) /\ ~Preparing(s)
                              /\ ~s.scope.engaged /\ ~s.scope.pending

(* What holds of the loop between two calls.                               *)
Settled(s) == s \in States /\ Owned(s) /\ BusyClean(s) /\ IdleClean(s)

LEMMA ObservedIs ==
  ASSUME NEW s, Settled(s), NEW p, IsProfile(p), s.last = p.key, NEW obs \in Seen
  PROVE  Settled(Observed(s, p, obs)) /\ Outlasts(s.fsm, Observed(s, p, obs).fsm, obs, p.grace)
<1> DEFINE n == [s EXCEPT !.tapped = FALSE]
           t == IF p.scope = 1 THEN s ELSE n
<1>1. Observed(s, p, obs) = IF obs = "old" THEN s
        ELSE IF obs = "late" \/ Busy(t) THEN (IF LastingOn(t) THEN Unmask(t) ELSE t)
        ELSE Judge(t, p, obs)
  BY DEF Observed, If
<1>2. p.key # 0
  BY DEF IsProfile
<1>3. Notes(s, n) /\ n.last = s.last
  BY NotesAre DEF Settled, States
<1> HIDE DEF n
<1>4. Eased(s, n) /\ Eased(s, s)
  BY <1>3, NotesEased, NotEased DEF Settled
<1>5. t \in States /\ Owned(t) /\ BusyClean(t) /\ t.last = s.last /\ t.fsm = s.fsm
  BY <1>3, <1>4 DEF Settled, Eased, Notes, BusyClean, Busy, Holding
<1> HIDE DEF t
<1>6. obs \in Misses \cup {"zone"} \/ obs \in {"old", "late", "turn"}
  BY DEF Seen, Misses
<1>7. obs \in {"old", "late"} \/ ~Pressed(s.fsm) => Outlasts(s.fsm, s.fsm, obs, p.grace)
  BY DEF Outlasts, Misses
<1>8. CASE obs = "old"
  BY <1>1, <1>7, <1>8
<1>9. CASE obs # "old" /\ (obs = "late" \/ Busy(t))
  <2>1. MaskCommand(t, Unmask(t)) /\ MaskCommand(t, t)
    BY <1>5, UnmaskIs, NoCommand DEF Owned
  <2>2. ASSUME NEW u, MaskCommand(t, u)
        PROVE  Settled(u) /\ u.fsm = t.fsm
    <3>1. Owned(u) /\ u \in States /\ u.last = s.last
      BY <1>5, <2>2, CommandOwned DEF MaskCommand, Rest
    <3>2. BusyClean(u) /\ u.fsm = t.fsm
      BY <1>5, <2>2 DEF MaskCommand, Rest, SameLeft, SameRight, BusyClean, Busy, Holding
    <3>. QED  BY <1>2, <3>1, <3>2 DEF Settled, IdleClean
  <2>3. Observed(s, p, obs) \in {Unmask(t), t}
    BY <1>1, <1>9
  <2>4. Settled(Observed(s, p, obs)) /\ Observed(s, p, obs).fsm = s.fsm
    BY <1>5, <2>1, <2>2, <2>3
  <2>5. obs = "late" \/ ~Pressed(s.fsm)
    BY <1>5, <1>9 DEF BusyClean
  <2>. QED  BY <1>7, <2>4, <2>5
<1>10. CASE obs \notin {"old", "late"} /\ ~Busy(t)
  <2>1. Observed(s, p, obs) = Judge(t, p, obs)
    BY <1>1, <1>10
  <2>2. Kept(t, Judge(t, p, obs)) /\ Outlasts(t.fsm, Judge(t, p, obs).fsm, obs, p.grace)
    BY <1>5, <1>10, JudgeIs
  <2>3. Settled(Judge(t, p, obs))
    BY <1>2, <1>5, <2>2 DEF Kept, Settled, IdleClean
  <2>. QED  BY <1>5, <2>1, <2>2, <2>3
<1>. QED  BY <1>8, <1>9, <1>10

(* A step that presses nothing anew leaves the loop settled.               *)
LEMMA EasedSettled ==
  ASSUME NEW s, Settled(s), NEW t, Eased(s, t), IdleClean(t)
  PROVE  Settled(t)
BY DEF Settled, Eased, BusyClean, Busy

LEMMA EasedOutlasts ==
  ASSUME NEW f, NEW g, g = f \/ ~Pressed(g), NEW h, NEW obs, NEW grace, Outlasts(g, h, obs, grace)
  PROVE  Outlasts(f, h, obs, grace)
BY DEF Outlasts

LEMMA TickedIs ==
  ASSUME NEW s, Settled(s), NEW p \in Profiles \cup {NoHotkey}, NEW obs \in Seen
  PROVE  /\ Settled(Ticked(s, p, obs))
         /\ IF p = NoHotkey THEN ~Pressed(Ticked(s, p, obs).fsm)
            ELSE Outlasts(s.fsm, Ticked(s, p, obs).fsm, obs, p.grace)
<1> DEFINE t == AfterShot(s)
           u == TakeProfile(t, p)
           d == DeactivateHotkey(t)
<1>1. Ticked(s, p, obs) = IF p = NoHotkey THEN d
                          ELSE IF ~(p.aims \/ p.enabled) THEN d ELSE Observed(u, p, obs)
  BY DEF Ticked
<1>2. MaskCommand(s, t) /\ t.stop \in {NoStop, s.stop} /\ t \in States /\ Owned(t)
  BY AfterShotIs, CommandOwned DEF Settled
<1> HIDE DEF t
<1>3. Settled(t) /\ t.fsm = s.fsm
  <2>1. IdleClean(t)
    BY <1>2, StopsAre
    DEF Settled, IdleClean, MaskCommand, Rest, SameLeft, SameRight, Preparing
  <2>. QED  BY <1>2, <2>1
       DEF Settled, BusyClean, Busy, MaskCommand, Rest, SameLeft, SameRight, Holding
<1>4. Settled(d) /\ ~Pressed(d.fsm)
  <2>1. IF t.last = 0 THEN d = t
        ELSE /\ Eased(t, d) /\ d.last = 0 /\ ~Pressed(d.fsm) /\ ~d.scope.engaged
             /\ ~d.scope.pending /\ ~Preparing(d)
    BY <1>2, DeactivateIs
  <2> HIDE DEF d
  <2>2. CASE t.last = 0
    BY <1>3, <2>1, <2>2 DEF Settled, IdleClean
  <2>3. CASE t.last # 0
    BY <1>3, <2>1, <2>3, EasedSettled DEF IdleClean
  <2>. QED  BY <2>2, <2>3
<1> HIDE DEF d
<1>5. CASE p = NoHotkey \/ ~(p.aims \/ p.enabled)
  BY <1>1, <1>4, <1>5 DEF Outlasts
<1>6. CASE p # NoHotkey /\ (p.aims \/ p.enabled)
  <2>1. IsProfile(p)
    BY <1>6, OutputAssumption
  <2>2. Eased(t, u) /\ u.last = p.key
    BY <1>2, <2>1, TakeProfileIs
  <2> HIDE DEF u
  <2>3. Settled(u)
    BY <1>3, <2>1, <2>2, EasedSettled DEF IdleClean, IsProfile
  <2>4. Settled(Observed(u, p, obs)) /\ Outlasts(u.fsm, Observed(u, p, obs).fsm, obs, p.grace)
    BY <2>1, <2>2, <2>3, ObservedIs
  <2>5. u.fsm = s.fsm \/ ~Pressed(u.fsm)
    BY <1>3, <2>2 DEF Eased
  <2>. QED  BY <1>1, <1>6, <2>4, <2>5, EasedOutlasts
<1>. QED  BY <1>5, <1>6

-----------------------------------------------------------------------------
(* The other steps.                                                        *)
Under(s, fault, took) == [s EXCEPT !.fault = fault, !.took = took]

LEMMA FaultSet ==
  ASSUME NEW s, Settled(s), NEW fault \in Faults, NEW took \in BOOLEAN
  PROVE  LET t == Under(s, fault, took) IN
         /\ Settled(t) /\ t.fsm = s.fsm /\ t.scope = s.scope /\ t.last = s.last
         /\ t.switch = s.switch /\ t.fault = fault /\ t.took = took
<1> DEFINE t == Under(s, fault, took)
<1>1. /\ t \in States /\ t.last = s.last /\ t.switch = s.switch /\ t.fsm = s.fsm
      /\ t.scope = s.scope /\ t.stop = s.stop /\ t.dev = s.dev /\ t.doubt = s.doubt
      /\ t.fault = fault /\ t.took = took
  BY DEF Settled, States, Under
<1> HIDE DEF t
<1>2. Settled(t)
  BY <1>1
  DEF Settled, Owned, LeftOwned, RightOwned, MaskOwned, LeftDown, RightDown, MaskOn, Holding,
      Active, BusyClean, Busy, IdleClean, Preparing
<1>. QED  BY <1>1, <1>2 DEF t

LEMMA NoFaultIs ==
  ASSUME NEW s, Settled(s)
  PROVE  /\ Settled(NoFault(s)) /\ NoFault(s).fsm = s.fsm /\ NoFault(s).scope = s.scope
         /\ NoFault(s).switch = s.switch /\ NoFault(s).fault = "none" /\ NoFault(s).took = FALSE
         /\ NoFault(s).press = "none"
<1>1. PICK fault \in Faults, took \in BOOLEAN : fault = "none" /\ took = FALSE
  BY DEF Faults
<1> DEFINE t == Under(s, fault, took)
<1>2. /\ Settled(t) /\ t.fsm = s.fsm /\ t.scope = s.scope /\ t.switch = s.switch
      /\ t.fault = fault /\ t.took = took
  BY FaultSet
<1> HIDE DEF t
<1>3. NoFault(s) = [t EXCEPT !.press = "none"] /\ t \in States
  BY <1>1, <1>2 DEF NoFault, Under, Settled, t
<1>4. /\ NoFault(s) \in States /\ NoFault(s).fsm = t.fsm /\ NoFault(s).scope = t.scope
      /\ NoFault(s).stop = t.stop /\ NoFault(s).dev = t.dev /\ NoFault(s).doubt = t.doubt
      /\ NoFault(s).last = t.last /\ NoFault(s).switch = t.switch
      /\ NoFault(s).fault = t.fault /\ NoFault(s).took = t.took /\ NoFault(s).press = "none"
  BY <1>3 DEF States
<1>5. Settled(NoFault(s))
  BY <1>2, <1>4
  DEF Settled, Owned, LeftOwned, RightOwned, MaskOwned, LeftDown, RightDown, MaskOn, Holding,
      Active, BusyClean, Busy, IdleClean, Preparing
<1>. QED  BY <1>1, <1>2, <1>4, <1>5

(* The mask is lifted, or nobody knows whether it is.                      *)
LEMMA MaskLiftedIs ==
  ASSUME NEW s \in States, MaskOwned(s)
  PROVE  LET t == If(Active(s), s, LAMBDA x : Send(x, "unmask")) IN
         /\ Rest(s, t) /\ SameLeft(s, t) /\ SameRight(s, t) /\ ~MaskOn(t)
<1> DEFINE u == Send(s, "unmask")
<1>1. If(Active(s), s, LAMBDA x : Send(x, "unmask")) = IF Active(s) THEN u ELSE s
  BY DEF If
<1>2. /\ u \in States /\ u.last = s.last /\ u.switch = s.switch /\ u.fault = s.fault
      /\ u.took = s.took /\ u.fsm = s.fsm /\ u.scope = s.scope
      /\ u.dev.left = s.dev.left /\ u.dev.right = s.dev.right
      /\ u.doubt \ {"mask"} = s.doubt \ {"mask"}
      /\ "mask" \in u.doubt \/ u.dev.mask = 0
  BY SendMaskIs
<1> HIDE DEF u
<1>3. Rest(s, u) /\ SameLeft(s, u) /\ SameRight(s, u) /\ ~MaskOn(u)
  BY <1>2 DEF Rest, SameLeft, SameRight, LeftDown, RightDown, MaskOn
<1>4. ~Active(s) => Rest(s, s) /\ SameLeft(s, s) /\ SameRight(s, s) /\ ~MaskOn(s)
  BY DEF Rest, SameLeft, SameRight, MaskOwned
<1>. QED  BY <1>1, <1>3, <1>4

LEMMA GivenIs ==
  ASSUME NEW s, Settled(s), ~Busy(s)
  PROVE  Settled(Given(s)) /\ ~Pressed(Given(s).fsm)
<1> DEFINE r == ResetTrigger(s)
           l == IF Pressed(s.fsm) THEN LeftUp(r) ELSE r
           s1 == LetGo(l)
           u == If(Active(s1), s1, LAMBDA t : Send(t, "unmask"))
           v == [u EXCEPT !.stop = NoStop, !.tapped = FALSE]
<1>1. Given(s) = v
  <2>1. l = If(Pressed(s.fsm), ResetTrigger(s), LeftUp)
    BY DEF If
  <2> HIDE DEF l
  <2>. QED  BY <2>1 DEF Given
<1>2. /\ Rest(s, r) /\ SameRight(s, r) /\ SameMask(s, r) /\ ~Pressed(r.fsm)
      /\ (LeftDown(r) <=> LeftDown(s)) /\ r \in States
  BY ResetTriggerIs DEF Settled, Rest
<1> HIDE DEF r
<1>3. /\ Rest(r, LeftUp(r)) /\ SameRight(r, LeftUp(r)) /\ SameMask(r, LeftUp(r))
      /\ LeftUp(r).fsm = r.fsm /\ ~LeftDown(LeftUp(r))
  BY <1>2, LeftUpIs
<1>4. Rest(s, l) /\ l \in States /\ Owned(l) /\ ~Pressed(l.fsm) /\ ~LeftDown(l)
  <2>1. CASE Pressed(s.fsm)
    BY <1>2, <1>3, <2>1
    DEF Settled, Rest, SameRight, SameMask, Owned, LeftOwned, RightOwned, MaskOwned, Holding, Active
  <2>2. CASE ~Pressed(s.fsm)
    BY <1>2, <2>2
    DEF Settled, Rest, SameRight, SameMask, Owned, LeftOwned, RightOwned, MaskOwned, Holding, Active
  <2>. QED  BY <2>1, <2>2
<1> HIDE DEF l
<1>5. RightCommand(l, s1) /\ ~RightDown(s1) /\ s1.scope = ForceRelease(l.scope).scope
      /\ s1 \in States
  BY <1>4, LetGoIs DEF Owned, RightCommand, Rest
<1>6. ~s1.scope.engaged /\ ~s1.scope.pending
  <2>1. l.scope \in Scopes
    BY <1>4 DEF States
  <2>. QED  BY <1>5, <2>1, ForceReleaseIs
<1> HIDE DEF s1
<1>7. Rest(s1, u) /\ SameLeft(s1, u) /\ SameRight(s1, u) /\ ~MaskOn(u) /\ u \in States
  <2>1. MaskOwned(s1)
    BY <1>4, <1>5 DEF RightCommand, SameMask, Owned, MaskOwned, Active
  <2>. QED  BY <1>5, <2>1, MaskLiftedIs DEF Rest
<1> HIDE DEF u
<1>8. /\ v \in States /\ v.last = u.last /\ v.switch = u.switch /\ v.fsm = u.fsm
      /\ v.scope = u.scope /\ v.stop = NoStop /\ v.dev = u.dev /\ v.doubt = u.doubt
  BY <1>7, StopsAre DEF States
<1> HIDE DEF v
<1>9. /\ ~LeftDown(v) /\ ~RightDown(v) /\ ~MaskOn(v) /\ ~Pressed(v.fsm) /\ ~Busy(v)
      /\ ~v.scope.engaged /\ ~v.scope.pending
  BY <1>4, <1>5, <1>6, <1>7, <1>8
  DEF RightCommand, Rest, SameLeft, SameRight, LeftDown, RightDown, MaskOn, Busy
<1>. QED  BY <1>1, <1>8, <1>9, StopsAre
     DEF Settled, Owned, LeftOwned, RightOwned, MaskOwned, BusyClean, IdleClean, Preparing

LEMMA FreedIs ==
  ASSUME NEW s, Settled(s)
  PROVE  /\ Freed(s) \in States /\ Freed(s).fsm = s.fsm /\ Freed(s).scope = s.scope
         /\ Freed(s).last = s.last /\ Freed(s).switch = 0 /\ Freed(s).stop = NoStop
         /\ ~LeftDown(Freed(s)) /\ ~RightDown(Freed(s)) /\ ~MaskOn(Freed(s))
<1> DEFINE m == If(Active(s), s, LAMBDA t : Send(t, "unmask"))
           l == LeftUp(m)
           r == RightUp(l)
           v == [r EXCEPT !.switch = 0, !.stop = NoStop]
<1>1. Freed(s) = v
  BY DEF Freed
<1>2. Rest(s, m) /\ SameLeft(s, m) /\ SameRight(s, m) /\ ~MaskOn(m) /\ m \in States
  BY MaskLiftedIs DEF Settled, Owned, Rest
<1> HIDE DEF m
<1>3. Rest(m, l) /\ SameRight(m, l) /\ SameMask(m, l) /\ l.fsm = m.fsm /\ ~LeftDown(l)
      /\ l \in States
  BY <1>2, LeftUpIs DEF Rest
<1> HIDE DEF l
<1>4. Rest(l, r) /\ SameLeft(l, r) /\ SameMask(l, r) /\ r.scope = l.scope /\ ~RightDown(r)
      /\ r \in States
  BY <1>3, RightUpIs DEF Rest
<1> HIDE DEF r
<1>5. /\ v \in States /\ v.last = r.last /\ v.switch = 0 /\ v.fsm = r.fsm
      /\ v.scope = r.scope /\ v.stop = NoStop /\ v.dev = r.dev /\ v.doubt = r.doubt
  <2>1. 0 \in 0..5 /\ NoStop \in Stops
    BY StopsAre
  <2>. QED  BY <1>4, <2>1 DEF States
<1> HIDE DEF v
<1>. QED  BY <1>1, <1>2, <1>3, <1>4, <1>5
     DEF Rest, SameLeft, SameRight, SameMask, LeftDown, RightDown, MaskOn

LEMMA FreedSettled ==
  ASSUME NEW s, Settled(s)
  PROVE  Settled(Freed(s))
<1>1. /\ Freed(s) \in States /\ Freed(s).fsm = s.fsm /\ Freed(s).scope = s.scope
      /\ Freed(s).last = s.last /\ Freed(s).switch = 0 /\ Freed(s).stop = NoStop
      /\ ~LeftDown(Freed(s)) /\ ~RightDown(Freed(s)) /\ ~MaskOn(Freed(s))
  BY FreedIs
<1>. QED  BY <1>1, StopsAre
     DEF Settled, Owned, LeftOwned, RightOwned, MaskOwned, BusyClean, Busy, IdleClean, Preparing

(* Time passes.                                                            *)
LEMMA LessIs ==
  ASSUME NEW n \in Nat, NEW x \in 0..n
  PROVE  Less(x, 1) \in 0..n /\ Less(x, 1) <= x
BY DEF Less

LEMMA SinceIs ==
  ASSUME NEW x \in {Never} \cup 0..Horizon
  PROVE  Since(x, 1) \in {Never} \cup 0..Horizon
BY PartsAssumption DEF Since, Never

Passed(s) == [s EXCEPT !.fsm.due = Less(@, 1), !.fsm.lost = Since(@, 1),
                       !.scope.tap = Less(@, 1), !.stop.left = Less(@, 1),
                       !.dev.mask = IF Expires THEN Less(@, 1) ELSE @]

LEMMA PassedIs ==
  ASSUME NEW s, Settled(s)
  PROVE  /\ Settled(Passed(s)) /\ Passed(s).fault = s.fault /\ Passed(s).took = s.took
         /\ Passed(s).press = s.press
         /\ Passed(s).fsm.mode = s.fsm.mode /\ (Pressed(Passed(s).fsm) <=> Pressed(s.fsm))
         /\ Passed(s).fsm.lost = Since(s.fsm.lost, 1)
<1> DEFINE f == [s.fsm EXCEPT !.due = Less(s.fsm.due, 1), !.lost = Since(s.fsm.lost, 1)]
           x == [s.scope EXCEPT !.tap = Less(s.scope.tap, 1)]
           y == [s.stop EXCEPT !.left = Less(s.stop.left, 1)]
           m == IF Expires THEN Less(s.dev.mask, 1) ELSE s.dev.mask
           d == [s.dev EXCEPT !.mask = m]
           t == [s EXCEPT !.fsm = f, !.scope = x, !.stop = y, !.dev = d]
<1>1. s \in States
  BY DEF Settled
<1>2. Passed(s) = t
  BY <1>1 DEF Passed, States
<1>3. f \in Triggers /\ f.mode = s.fsm.mode /\ f.phase = s.fsm.phase
      /\ f.lost = Since(s.fsm.lost, 1)
  <2>1. s.fsm \in Triggers /\ s.fsm.due \in 0..Horizon /\ s.fsm.lost \in {Never} \cup 0..Horizon
    BY <1>1 DEF States, Triggers
  <2>2. Less(s.fsm.due, 1) \in 0..Horizon
    BY <2>1, LessIs, PartsAssumption
  <2>3. Since(s.fsm.lost, 1) \in {Never} \cup 0..Horizon
    BY <2>1, SinceIs
  <2>. QED  BY <2>1, <2>2, <2>3 DEF Triggers
<1>4. x \in Scopes /\ x.engaged = s.scope.engaged /\ x.pending = s.scope.pending
      /\ x.mode = s.scope.mode
  <2>1. s.scope \in Scopes /\ s.scope.tap \in 0..Horizon
    BY <1>1 DEF States, Scopes
  <2>2. Less(s.scope.tap, 1) \in 0..Horizon
    BY <2>1, LessIs, PartsAssumption
  <2>. QED  BY <2>1, <2>2 DEF Scopes
<1>5. y \in Stops /\ y.phase = s.stop.phase
  <2>1. s.stop \in Stops /\ s.stop.left \in 0..Horizon
    BY <1>1 DEF States, Stops
  <2>2. Less(s.stop.left, 1) \in 0..Horizon
    BY <2>1, LessIs, PartsAssumption
  <2>. QED  BY <2>1, <2>2 DEF Stops
<1>6. m \in 0..MaskSpan /\ m <= s.dev.mask
  <2>1. s.dev.mask \in 0..MaskSpan /\ MaskSpan \in Nat
    BY <1>1, OutputAssumption DEF States
  <2>. QED  BY <2>1, LessIs
<1>7. /\ d \in [left : BOOLEAN, right : BOOLEAN, mask : 0..MaskSpan]
      /\ d.left = s.dev.left /\ d.right = s.dev.right /\ d.mask = m
  <2>1. s.dev \in [left : BOOLEAN, right : BOOLEAN, mask : 0..MaskSpan]
    BY <1>1 DEF States
  <2> HIDE DEF m
  <2>. QED  BY <1>6, <2>1
<1> HIDE DEF f, x, y, d, m
<1>8. /\ t \in States /\ t.fsm = f /\ t.scope = x /\ t.stop = y /\ t.dev = d
      /\ t.doubt = s.doubt /\ t.last = s.last /\ t.switch = s.switch
      /\ t.fault = s.fault /\ t.took = s.took /\ t.press = s.press
  BY <1>1, <1>3, <1>4, <1>5, <1>7 DEF States
<1> HIDE DEF t
<1>9. MaskOn(t) => MaskOn(s)
  <2>1. s.dev.mask \in 0..MaskSpan /\ MaskSpan \in Nat
    BY <1>1, OutputAssumption DEF States
  <2>. QED  BY <1>6, <1>7, <1>8, <2>1 DEF MaskOn
<1>10. Settled(t)
  BY <1>3, <1>4, <1>5, <1>7, <1>8, <1>9
  DEF Settled, Owned, LeftOwned, RightOwned, MaskOwned, LeftDown, RightDown, Holding, Active,
      Pressed, BusyClean, Busy, IdleClean, Preparing
<1>. QED  BY <1>2, <1>3, <1>8, <1>10 DEF Pressed

-----------------------------------------------------------------------------
(* The inductive invariant: the loop is settled, and the time without a    *)
(* hit is the one the trigger counts for its grace.                        *)
Dids == Seen \cup {"idle", "start", "change", "pass", "switch", "macro", "reset", "stall"}

Histories == [did : Dids, missing : {Never} \cup 0..Horizon, renewed : BOOLEAN,
              press : {"none", "done", "failed"}, by : Profiles \cup {NoHotkey},
              game : {"shut", "open", "macro", "session", "failed", "other"}]

GraceRuns == Pressed(loop.fsm) /\ loop.fsm.mode = "smart" => aux.missing = loop.fsm.lost

LoopOK == Settled(loop) /\ loop.fault = "none" /\ loop.took = FALSE /\ loop.press = "none"

WorldOK ==
    /\ hot \in Profiles \cup {NoHotkey} /\ owned \in BOOLEAN /\ alive \in BOOLEAN
    /\ left \in 0..MaxEvents
    /\ aux \in Histories

IInv == LoopOK /\ WorldOK /\ GraceRuns /\ GraceIsFixed

LEMMA InitIInv == Init => IInv
<1> SUFFICES ASSUME Init PROVE IInv
  OBVIOUS
<1>1. Trigger0 \in Triggers /\ ~Pressed(Trigger0) /\ Scope0 \in Scopes
      /\ ~Scope0.engaged /\ ~Scope0.pending
  BY ZeroIsTime DEF Trigger0, Scope0, Triggers, Scopes, Pressed, FireModes
<1>2. Device0 \in [left : BOOLEAN, right : BOOLEAN, mask : 0..MaskSpan]
      /\ ~Device0.left /\ ~Device0.right /\ Device0.mask = 0
  BY OutputAssumption DEF Device0
<1>3. 0 \in Nat /\ 0 \in 0..2 /\ 0 \in 0..5 /\ {} \in SUBSET {"left", "right", "mask"}
      /\ "none" \in Faults
  BY DEF Faults
<1>4. /\ loop \in States /\ loop.fsm = Trigger0 /\ loop.scope = Scope0 /\ loop.stop = NoStop
      /\ loop.dev = Device0 /\ loop.switch = 0 /\ loop.fault = "none" /\ loop.took = FALSE
      /\ loop.press = "none"
  BY <1>1, <1>2, <1>3, StopsAre DEF Init, States
<1>5. Settled(loop)
  BY <1>1, <1>2, <1>4, StopsAre
  DEF Settled, Owned, LeftOwned, RightOwned, MaskOwned, LeftDown, RightDown, MaskOn, BusyClean,
      Busy, IdleClean, Preparing
<1>6. WorldOK
  <2>1. MaxEvents \in 0..MaxEvents
    BY OutputAssumption
  <2>2. aux \in Histories
    BY DEF Init, Histories, Dids
  <2>. QED  BY <2>1, <2>2 DEF Init, WorldOK
<1>7. GraceRuns /\ GraceIsFixed
  BY <1>1, <1>4 DEF Init, GraceRuns, GraceIsFixed
<1>. QED  BY <1>4, <1>5, <1>6, <1>7 DEF IInv, LoopOK

(* A step that leaves the trigger as it is, or not pressed, and the time   *)
(* without a hit as well.                                                  *)
LEMMA GraceStays ==
  ASSUME IInv, aux'.missing = aux.missing, aux'.did \notin Misses,
         loop'.fsm = loop.fsm \/ ~Pressed(loop'.fsm)
  PROVE  GraceRuns' /\ GraceIsFixed'
BY DEF IInv, GraceRuns, GraceIsFixed

LEMMA AttemptIs ==
  ASSUME IInv, NEW fault \in Faults, NEW took \in BOOLEAN, Attempt(fault, took)
  PROVE  /\ left' \in 0..MaxEvents
         /\ Settled(During(fault, took)) /\ During(fault, took).fsm = loop.fsm
         /\ During(fault, took).scope = loop.scope /\ During(fault, took).switch = loop.switch
<1>1. left' \in 0..MaxEvents
  BY OutputAssumption DEF IInv, WorldOK, Attempt
<1>2. /\ Settled(Under(loop, fault, took)) /\ Under(loop, fault, took).fsm = loop.fsm
      /\ Under(loop, fault, took).scope = loop.scope
      /\ Under(loop, fault, took).switch = loop.switch
  BY FaultSet DEF IInv, LoopOK
<1>. QED  BY <1>1, <1>2 DEF During, Under

(* What a step makes of the history of the game's scope.                   *)
LEMMA LosesTrackIs ==
  ASSUME aux \in Histories, NEW what \in {"macro", "session"}
  PROVE  LosesTrack(what) \in {"shut", "macro", "session", "failed", "other"}
BY DEF Histories, LosesTrack

LEMMA GameScopeIs ==
  ASSUME aux \in Histories, hot \in Profiles \cup {NoHotkey}, NEW t
  PROVE  /\ GameScope(t).by \in Profiles \cup {NoHotkey}
         /\ GameScope(t).game \in {"shut", "open", "macro", "session", "failed", "other"}
<1> DEFINE tapped == t.press # "none" /\ hot # NoHotkey /\ hot.scope = 1
           lost   == IF MayTap(hot) THEN "open" ELSE "other"
<1>1. /\ aux.by \in Profiles \cup {NoHotkey}
      /\ aux.game \in {"shut", "open", "macro", "session", "failed", "other"}
      /\ lost \in {"open", "other"}
  BY DEF Histories
<1>2. GameScope(t) =
        IF Busy(t) \/ StillHeld = tapped THEN [by |-> NoHotkey, game |-> "shut"]
        ELSE IF tapped THEN [by |-> hot, game |-> IF t.press = "done" THEN lost ELSE "failed"]
        ELSE [by |-> aux.by, game |-> IF aux.game = "open" THEN lost ELSE aux.game]
  BY DEF GameScope
<1>3. tapped => hot \in Profiles
  OBVIOUS
<1> HIDE DEF tapped, lost
<1>4. CASE Busy(t) \/ StillHeld = tapped
  BY <1>2, <1>4
<1>5. CASE ~(Busy(t) \/ StillHeld = tapped) /\ tapped
  BY <1>1, <1>2, <1>3, <1>5
<1>6. CASE ~(Busy(t) \/ StillHeld = tapped) /\ ~tapped
  BY <1>1, <1>2, <1>6
<1>. QED  BY <1>4, <1>5, <1>6

LEMMA TickKeeps ==
  ASSUME IInv, NEW obs \in Seen, NEW fault \in Faults, NEW took \in BOOLEAN, Tick(obs, fault, took)
  PROVE  IInv'
<1> DEFINE s == During(fault, took)
           t == Ticked(s, hot, obs)
<1>1. Settled(s) /\ s.fsm = loop.fsm /\ left' \in 0..MaxEvents
  BY AttemptIs DEF Tick
<1>2. hot \in Profiles \cup {NoHotkey}
  BY DEF IInv, WorldOK
<1>3. loop' = NoFault(t)
  BY DEF Tick
<1>7. /\ aux' = [did |-> IF hot = NoHotkey THEN "idle" ELSE obs, missing |-> NowMissing(obs),
                 renewed |-> aux.renewed /\ t.scope.engaged, press |-> t.press,
                 by |-> GameScope(t).by, game |-> GameScope(t).game]
      /\ hot' = hot /\ owned' = owned /\ alive' = alive
  BY DEF Tick
<1> HIDE DEF s
<1>4. Settled(t) /\ IF hot = NoHotkey THEN ~Pressed(t.fsm)
                    ELSE Outlasts(loop.fsm, t.fsm, obs, hot.grace)
  BY <1>1, <1>2, TickedIs
<1> HIDE DEF t
<1>5. LoopOK' /\ loop'.fsm = t.fsm
  BY <1>3, <1>4, NoFaultIs DEF LoopOK
<1>6. t.scope.engaged \in BOOLEAN /\ t.press \in {"none", "done", "failed"}
  BY <1>4 DEF Settled, States, Scopes
<1>8. NowMissing(obs) \in {Never} \cup 0..Horizon
  BY ZeroIsTime DEF NowMissing, IInv, WorldOK, Histories
<1>9. WorldOK'
  <2>1. aux.renewed \in BOOLEAN
    BY DEF IInv, WorldOK, Histories
  <2>2. /\ GameScope(t).by \in Profiles \cup {NoHotkey}
        /\ GameScope(t).game \in {"shut", "open", "macro", "session", "failed", "other"}
    BY <1>2, GameScopeIs DEF IInv, WorldOK, Histories
  <2>3. (IF hot = NoHotkey THEN "idle" ELSE obs) \in Dids
    BY DEF Dids
  <2>4. aux' \in Histories
    BY <1>6, <1>7, <1>8, <2>1, <2>2, <2>3 DEF Histories
  <2>. QED  BY <1>1, <1>7, <2>4 DEF IInv, WorldOK
<1>10. GraceRuns' /\ GraceIsFixed'
  <2>1. CASE hot = NoHotkey
    BY <1>4, <1>5, <2>1 DEF GraceRuns, GraceIsFixed
  <2>2. CASE hot # NoHotkey
    <3>1. /\ Outlasts(loop.fsm, loop'.fsm, obs, hot.grace) /\ hot' = hot
          /\ aux'.did = obs /\ aux'.missing = NowMissing(obs)
      BY <1>4, <1>5, <1>7, <2>2
    <3>2. NowMissing(obs) =
            IF obs \in {"old", "late", "turn"} THEN aux.missing
            ELSE IF obs = "zone" THEN Never
            ELSE IF aux.missing = Never THEN 0 ELSE aux.missing
      BY <2>2 DEF NowMissing
    <3>3. Pressed(loop.fsm) /\ loop.fsm.mode = "smart" => aux.missing = loop.fsm.lost
      BY DEF IInv, GraceRuns
    <3>4. obs \in Misses \cup {"zone", "old", "late", "turn"}
      BY DEF Seen, Misses
    <3>. QED  BY <3>1, <3>2, <3>3, <3>4 DEF Outlasts, Lost, GraceRuns, GraceIsFixed, Misses
  <2>. QED  BY <2>1, <2>2
<1>. QED  BY <1>5, <1>9, <1>10 DEF IInv

(* The history after a step that is no tick.                               *)
LEMMA DidKeeps ==
  ASSUME IInv, NEW what \in Dids, Did(what)
  PROVE  /\ aux' \in Histories
         /\ aux'.missing = aux.missing /\ aux'.did = what
BY DEF IInv, WorldOK, Did, Histories

LEMMA DidsAre ==
  /\ {"change", "pass", "switch", "macro", "reset", "stall"} \subseteq Dids
  /\ {"change", "pass", "switch", "macro", "reset", "stall"} \cap Misses = {}
BY DEF Dids, Misses

LEMMA ChangeHotkeyKeeps == IInv /\ ChangeHotkey => IInv'
<1> SUFFICES ASSUME IInv, ChangeHotkey PROVE IInv'
  OBVIOUS
<1>1. /\ aux' \in Histories
      /\ aux'.missing = aux.missing /\ aux'.did = "change"
  BY DidKeeps, DidsAre DEF ChangeHotkey
<1>2. hot' \in Profiles \cup {NoHotkey} /\ loop' = loop /\ owned' = owned /\ alive' = alive
  BY DEF ChangeHotkey
<1>3. left' \in 0..MaxEvents
  BY OutputAssumption DEF ChangeHotkey, IInv, WorldOK
<1>4. WorldOK' /\ LoopOK'
  BY <1>1, <1>2, <1>3 DEF IInv, WorldOK, LoopOK
<1>5. GraceRuns' /\ GraceIsFixed'
  BY <1>1, <1>2, DidsAre, GraceStays
<1>. QED  BY <1>4, <1>5 DEF IInv

LEMMA PassKeeps == IInv /\ Pass => IInv'
<1> SUFFICES ASSUME IInv, Pass PROVE IInv'
  OBVIOUS
<1>1. loop' = Passed(loop) /\ Settled(loop)
  BY DEF Pass, Passed, IInv, LoopOK
<1>2. /\ Settled(loop') /\ loop'.fault = loop.fault /\ loop'.took = loop.took
      /\ loop'.press = loop.press
      /\ loop'.fsm.mode = loop.fsm.mode /\ (Pressed(loop'.fsm) <=> Pressed(loop.fsm))
      /\ loop'.fsm.lost = Since(loop.fsm.lost, 1)
  BY <1>1, PassedIs
<1>3. /\ aux \in Histories
      /\ aux' = [aux EXCEPT !.did = "pass", !.missing = Since(aux.missing, 1),
                            !.press = "none"]
  BY DEF Pass, IInv, WorldOK
<1>4. /\ aux' \in Histories
      /\ aux'.did = "pass" /\ aux'.missing = Since(aux.missing, 1)
  <2>1. Since(aux.missing, 1) \in {Never} \cup 0..Horizon
    BY <1>3, SinceIs DEF Histories
  <2>2. "pass" \in Dids
    BY DidsAre
  <2>. QED  BY <1>3, <2>1, <2>2 DEF Histories
<1>5. WorldOK'
  BY <1>4 DEF Pass, IInv, WorldOK
<1>6. GraceRuns' /\ GraceIsFixed'
  BY <1>2, <1>4, DidsAre DEF IInv, GraceRuns, GraceIsFixed
<1>7. LoopOK'
  BY <1>2 DEF IInv, LoopOK
<1>. QED  BY <1>5, <1>6, <1>7 DEF IInv

LEMMA SwitchStepKeeps ==
  ASSUME IInv, NEW n \in 0..5, Busy(loop), loop' = [loop EXCEPT !.switch = n], Did("switch"),
         UNCHANGED <<hot, owned, alive, left>>
  PROVE  IInv'
<1>1. /\ aux' \in Histories
      /\ aux'.missing = aux.missing /\ aux'.did = "switch"
  BY DidKeeps, DidsAre
<1>2. loop \in States /\ Settled(loop)
  BY DEF IInv, LoopOK, Settled
<1>3. /\ loop' \in States /\ loop'.last = loop.last /\ loop'.switch = n /\ loop'.fsm = loop.fsm
      /\ loop'.scope = loop.scope /\ loop'.stop = loop.stop /\ loop'.dev = loop.dev
      /\ loop'.doubt = loop.doubt /\ loop'.fault = loop.fault /\ loop'.took = loop.took
      /\ loop'.press = loop.press
  BY <1>2 DEF States
<1>4. Settled(loop')
  BY <1>2, <1>3
  DEF Settled, Owned, LeftOwned, RightOwned, MaskOwned, LeftDown, RightDown, MaskOn, Holding,
      Active, BusyClean, IdleClean, Preparing
<1>5. GraceRuns' /\ GraceIsFixed'
  BY <1>1, <1>3, DidsAre, GraceStays
<1>6. WorldOK' /\ LoopOK'
  BY <1>1, <1>3, <1>4 DEF IInv, WorldOK, LoopOK
<1>. QED  BY <1>5, <1>6 DEF IInv

LEMMA SwitchKeyKeeps == IInv /\ (SwitchKey \/ SwitchKeyFails) => IInv'
<1>1. ASSUME IInv, SwitchKey PROVE IInv'
  <2>1. loop.switch \in 0..5
    BY <1>1 DEF IInv, LoopOK, Settled, States
  <2>2. PICK n \in 0..5 : loop' = [loop EXCEPT !.switch = n]
    BY <1>1, <2>1 DEF SwitchKey, Busy
  <2>. QED  BY <1>1, <2>2, SwitchStepKeeps DEF SwitchKey
<1>2. ASSUME IInv, SwitchKeyFails PROVE IInv'
  <2>1. PICK n \in 0..5 : loop' = [loop EXCEPT !.switch = n]
    BY <1>2 DEF SwitchKeyFails
  <2>2. Busy(loop)
    BY <1>2 DEF SwitchKeyFails, Busy
  <2>. QED  BY <1>2, <2>1, <2>2, SwitchStepKeeps DEF SwitchKeyFails
<1>. QED  BY <1>1, <1>2

LEMMA MacroKeeps ==
  ASSUME IInv, NEW fault \in Faults, NEW took \in BOOLEAN, PrepareForMacro(fault, took)
  PROVE  IInv'
<1> DEFINE s == During(fault, took)
           t == Given(s)
<1>1. Settled(s) /\ s.switch = loop.switch /\ left' \in 0..MaxEvents
  BY AttemptIs DEF PrepareForMacro
<1>2. loop' = NoFault(t)
  BY DEF PrepareForMacro
<1>3. ~Busy(s)
  BY <1>1 DEF PrepareForMacro, Busy
<1> HIDE DEF s
<1>4. Settled(t) /\ ~Pressed(t.fsm)
  BY <1>1, <1>3, GivenIs
<1> HIDE DEF t
<1>5. LoopOK' /\ ~Pressed(loop'.fsm)
  BY <1>2, <1>4, NoFaultIs DEF LoopOK
<1>6. /\ aux' \in Histories
      /\ aux'.missing = aux.missing /\ aux'.did = "macro"
  <2>1. aux \in Histories /\ "macro" \in Dids
    BY DidsAre DEF IInv, WorldOK
  <2>2. aux' = [aux EXCEPT !.did = "macro", !.press = "none", !.game = LosesTrack("macro")]
    BY DEF PrepareForMacro
  <2>. QED  BY <2>1, <2>2, LosesTrackIs DEF Histories
<1>7. WorldOK'
  BY <1>1, <1>6 DEF PrepareForMacro, IInv, WorldOK
<1>8. GraceRuns' /\ GraceIsFixed'
  BY <1>5, <1>6, DidsAre, GraceStays
<1>. QED  BY <1>5, <1>7, <1>8 DEF IInv

LEMMA ResetMouseKeeps ==
  ASSUME IInv, NEW fault \in Faults, NEW took \in BOOLEAN, ResetMouse(fault, took)
  PROVE  IInv'
<1> DEFINE s == During(fault, took)
           t == Freed(s)
<1>1. Settled(s) /\ s.fsm = loop.fsm /\ left' \in 0..MaxEvents
  BY AttemptIs DEF ResetMouse
<1>2. loop' = NoFault(t)
  BY DEF ResetMouse
<1> HIDE DEF s
<1>3. Settled(t) /\ t.fsm = loop.fsm
  BY <1>1, FreedSettled, FreedIs
<1> HIDE DEF t
<1>4. LoopOK' /\ loop'.fsm = loop.fsm
  BY <1>2, <1>3, NoFaultIs DEF LoopOK
<1>5. loop'.scope.engaged \in BOOLEAN
  BY <1>4 DEF LoopOK, Settled, States, Scopes
<1>6. /\ aux \in Histories
      /\ aux' = [aux EXCEPT !.did = "reset", !.press = "none",
                            !.renewed = loop'.scope.engaged]
  BY DEF ResetMouse, IInv, WorldOK
<1>7. /\ aux' \in Histories
      /\ aux'.missing = aux.missing /\ aux'.did = "reset"
  BY <1>5, <1>6, DidsAre DEF Histories
<1>8. WorldOK'
  BY <1>1, <1>7 DEF ResetMouse, IInv, WorldOK
<1>9. GraceRuns' /\ GraceIsFixed'
  BY <1>4, <1>7, DidsAre, GraceStays
<1>. QED  BY <1>4, <1>8, <1>9 DEF IInv

LEMMA ResetSessionKeeps ==
  ASSUME IInv, NEW fault \in Faults, NEW took \in BOOLEAN, ResetSession(fault, took)
  PROVE  IInv'
<1> DEFINE s == During(fault, took)
           t == Freed(s)
           n == NoFault(t)
           u == [n EXCEPT !.fsm = Reset(n.fsm), !.scope = ForceRelease(n.scope).scope,
                          !.flash = 0, !.last = 0, !.second = FALSE, !.tapped = FALSE]
<1>1. Settled(s) /\ left' \in 0..MaxEvents
  BY AttemptIs DEF ResetSession
<1>2. loop' = u
  BY DEF ResetSession
<1> HIDE DEF s
<1>3. /\ t \in States /\ t.switch = 0 /\ t.stop = NoStop
      /\ ~LeftDown(t) /\ ~RightDown(t) /\ ~MaskOn(t)
  BY <1>1, FreedIs
<1> HIDE DEF t
<1>4. /\ n \in States /\ n.switch = 0 /\ n.stop = NoStop /\ n.fault = "none" /\ n.took = FALSE
      /\ n.press = "none" /\ ~LeftDown(n) /\ ~RightDown(n) /\ ~MaskOn(n)
  <2>1. "none" \in Faults
    BY DEF Faults
  <2>2. /\ n \in States /\ n.switch = t.switch /\ n.stop = t.stop /\ n.fault = "none"
        /\ n.took = FALSE /\ n.press = "none" /\ n.dev = t.dev /\ n.doubt = t.doubt
    BY <1>3, <2>1 DEF NoFault, States
  <2>. QED  BY <1>3, <2>2 DEF LeftDown, RightDown, MaskOn
<1> HIDE DEF n
<1>5. Reset(n.fsm) \in Triggers /\ ~Pressed(Reset(n.fsm))
  BY <1>4, ResetIs DEF States
<1>6. /\ ForceRelease(n.scope).scope \in Scopes /\ ~ForceRelease(n.scope).scope.engaged
      /\ ~ForceRelease(n.scope).scope.pending
  BY <1>4, ForceReleaseIs DEF States
<1>7. /\ u \in States /\ u.fsm = Reset(n.fsm) /\ u.scope = ForceRelease(n.scope).scope
      /\ u.switch = n.switch /\ u.stop = n.stop /\ u.fault = n.fault /\ u.took = n.took
      /\ u.dev = n.dev /\ u.doubt = n.doubt /\ u.press = n.press
  <2>1. 0 \in Nat /\ 0 \in 0..2
    OBVIOUS
  <2>. QED  BY <1>4, <1>5, <1>6, <2>1 DEF States
<1> HIDE DEF u
<1>8. Settled(u) /\ ~Pressed(u.fsm)
  BY <1>4, <1>5, <1>6, <1>7, StopsAre
  DEF Settled, Owned, LeftOwned, RightOwned, MaskOwned, LeftDown, RightDown, MaskOn, BusyClean,
      Busy, IdleClean, Preparing
<1>9. LoopOK' /\ ~Pressed(loop'.fsm)
  BY <1>2, <1>4, <1>7, <1>8 DEF LoopOK
<1>10. /\ aux' \in Histories
       /\ aux'.missing = aux.missing /\ aux'.did = "reset"
  <2>1. aux \in Histories /\ "reset" \in Dids
    BY DidsAre DEF IInv, WorldOK
  <2>2. aux' = [aux EXCEPT !.did = "reset", !.press = "none", !.game = LosesTrack("session")]
    BY DEF ResetSession
  <2>. QED  BY <2>1, <2>2, LosesTrackIs DEF Histories
<1>11. WorldOK'
  BY <1>1, <1>10 DEF ResetSession, IInv, WorldOK
<1>12. GraceRuns' /\ GraceIsFixed'
  BY <1>9, <1>10, DidsAre, GraceStays
<1>. QED  BY <1>9, <1>11, <1>12 DEF IInv

LEMMA QuietStepKeeps == IInv /\ (FinishMacroControl \/ Stall) => IInv'
<1> SUFFICES ASSUME IInv, FinishMacroControl \/ Stall PROVE IInv'
  OBVIOUS
<1>1. PICK what \in {"macro", "stall"} : Did(what)
  BY DEF FinishMacroControl, Stall
<1>2. /\ aux' \in Histories
      /\ aux'.missing = aux.missing /\ aux'.did = what
  BY <1>1, DidKeeps, DidsAre
<1>3. loop' = loop /\ hot' = hot /\ left' = left /\ owned' \in BOOLEAN /\ alive' \in BOOLEAN
  BY DEF FinishMacroControl, Stall, IInv, WorldOK
<1>4. WorldOK' /\ LoopOK'
  BY <1>2, <1>3 DEF IInv, WorldOK, LoopOK
<1>5. GraceRuns' /\ GraceIsFixed'
  BY <1>2, <1>3, DidsAre, GraceStays
<1>. QED  BY <1>4, <1>5 DEF IInv

LEMMA NextKeeps == IInv /\ [Next]_vars => IInv'
<1> SUFFICES ASSUME IInv, [Next]_vars PROVE IInv'
  OBVIOUS
<1>1. CASE AnyTick
  BY <1>1, TickKeeps DEF AnyTick
<1>2. CASE ChangeHotkey
  BY <1>2, ChangeHotkeyKeeps
<1>3. CASE Pass
  BY <1>3, PassKeeps
<1>4. CASE SwitchKey \/ SwitchKeyFails
  BY <1>4, SwitchKeyKeeps
<1>5. CASE \E fault \in Faults, took \in BOOLEAN : PrepareForMacro(fault, took)
  BY <1>5, MacroKeeps
<1>6. CASE \E fault \in Faults, took \in BOOLEAN : ResetMouse(fault, took)
  BY <1>6, ResetMouseKeeps
<1>7. CASE \E fault \in Faults, took \in BOOLEAN : ResetSession(fault, took)
  BY <1>7, ResetSessionKeeps
<1>8. CASE FinishMacroControl \/ Stall
  BY <1>8, QuietStepKeeps
<1>9. CASE UNCHANGED vars
  BY <1>9 DEF vars, IInv, LoopOK, WorldOK, GraceRuns, GraceIsFixed
<1>. QED  BY <1>1, <1>2, <1>3, <1>4, <1>5, <1>6, <1>7, <1>8, <1>9 DEF Next

LEMMA IInvHolds == Spec => []IInv
BY InitIInv, NextKeeps, PTL DEF Spec

LEMMA TypesHold == IInv => TypeOK
<1> SUFFICES ASSUME IInv PROVE TypeOK
  OBVIOUS
<1>1. loop \in States /\ loop.fault \in {"none"} /\ loop.took \in {FALSE}
      /\ loop.press \in {"none"}
  BY DEF IInv, LoopOK, Settled
<1>2. loop \in [fsm : Triggers, scope : Scopes, stop : Stops, tapped : BOOLEAN,
                last : Nat, second : BOOLEAN, flash : 0..2,
                dev : [left : BOOLEAN, right : BOOLEAN, mask : 0..MaskSpan],
                doubt : SUBSET {"left", "right", "mask"}, switch : 0..5,
                fault : {"none"}, took : {FALSE}, press : {"none"}]
  BY <1>1 DEF States
<1>. QED  BY <1>2 DEF TypeOK, IInv, WorldOK, Histories

(* Every button that is down and every mask has an owner that ends it,     *)
(* whatever commands of the device failed before, and no shot outlasts its *)
(* grace or goes on into a weapon switch.                                  *)
THEOREM OutputInvHolds == Spec => []OutputInv
<1>1. IInv => OutputInv
  <2> SUFFICES ASSUME IInv PROVE OutputInv
    OBVIOUS
  <2>1. Settled(loop) /\ GraceIsFixed
    BY DEF IInv, LoopOK
  <2>2. LeftIsOwned /\ RightIsOwned /\ MaskIsOwned
    BY <2>1
    DEF Settled, Owned, LeftOwned, RightOwned, MaskOwned, LeftDown, RightDown, MaskOn, Holding,
        LeftIsOwned, RightIsOwned, MaskIsOwned, Certain
  <2>3. SwitchIsClean
    BY <2>1
    DEF Settled, Owned, LeftOwned, RightOwned, LeftDown, RightDown, BusyClean, SwitchIsClean,
        Certain
  <2>. QED  BY <2>1, <2>2, <2>3, TypesHold DEF OutputInv
<1>. QED  BY <1>1, IInvHolds, PTL

(* A tick that sees no hotkey leaves nothing pressed, no button down that  *)
(* the device answered for and no mask ready.                              *)
THEOREM QuietWhenReleasedHolds == Spec => []QuietWhenReleased
<1>1. IInv => QuietWhenReleased
  <2> SUFFICES ASSUME IInv PROVE QuietWhenReleased
    OBVIOUS
  <2>1. Settled(loop)
    BY DEF IInv, LoopOK
  <2>. QED  BY <2>1
       DEF Settled, IdleClean, Owned, LeftOwned, RightOwned, LeftDown, RightDown, Holding,
           QuietWhenReleased, Certain
<1>. QED  BY <1>1, IInvHolds, PTL

-----------------------------------------------------------------------------
(* What makes a shot ready.  A mask that is kept for it is on, as far as   *)
(* the device answered; a tap that is not ended belongs to a tap scope;    *)
(* and a scope that is held is held down.                                  *)
Covered(s) == ~Expires /\ "mask" \notin s.doubt /\ s.stop.phase \in {"preparing", "continuous"}
                 => s.dev.mask > 0
TapsOnly(s)  == s.scope.pending => s.scope.engaged /\ s.scope.mode = 1
HeldDown(s) == s.scope.engaged /\ s.scope.mode = 2 => s.dev.right

(* A step that presses no button and leaves the scope and the notes alone. *)
Calm(s, t) ==
    /\ t \in States /\ t.scope = s.scope /\ t.dev.right = s.dev.right /\ t.press = s.press
    /\ t.last = s.last /\ t.second = s.second /\ t.flash = s.flash /\ t.switch = s.switch
    /\ t.dev.left => s.dev.left
    /\ LeftDown(t) => LeftDown(s)
    /\ Covered(s) => Covered(t)

LEMMA CalmTwice ==
  ASSUME NEW s, NEW t, NEW u, Calm(s, t), Calm(t, u)
  PROVE  Calm(s, u)
BY DEF Calm

LEMMA CalmSelf ==
  ASSUME NEW s \in States
  PROVE  Calm(s, s)
BY DEF Calm

(* A command for a button.                                                 *)
LEMMA ButtonSent ==
  ASSUME NEW s \in States, NEW verb \in {"leftDown", "leftUp", "rightDown", "rightUp"}
  PROVE  LET t == Send(s, verb) IN
         /\ t \in States /\ t.scope = s.scope /\ t.last = s.last
         /\ t.second = s.second /\ t.flash = s.flash /\ t.switch = s.switch /\ t.fsm = s.fsm
         /\ t.stop = s.stop /\ t.dev.mask = s.dev.mask /\ t.fault = s.fault
         /\ \A part \in {"left", "right", "mask"} \ {Part(verb)} :
               part \in t.doubt <=> part \in s.doubt
         /\ Part(verb) \in t.doubt <=> ~Works(s, verb)
         /\ verb # "leftDown" => (t.dev.left => s.dev.left)
         /\ verb # "rightDown" => (t.dev.right => s.dev.right)
         /\ Part(verb) = "left" => t.dev.right = s.dev.right
         /\ Part(verb) = "right" => t.dev.left = s.dev.left
         /\ verb = "leftUp" /\ Works(s, verb) => ~t.dev.left
         /\ verb = "rightDown" /\ Works(s, verb) => t.dev.right
         /\ verb # "rightDown" => t.press = s.press
         /\ ~Works(s, verb) => t.press \in {s.press, "failed"}
<1> DEFINE t == Send(s, verb)
           d == IF Felt(s, verb) THEN Effect(s.dev, verb) ELSE s.dev
           q == IF Works(s, verb) THEN s.doubt \ {Part(verb)} ELSE s.doubt \cup {Part(verb)}
           h == Press(s, verb)
<1>1. t = [s EXCEPT !.dev = d, !.press = h, !.doubt = q]
  BY DEF Send
<1>7. /\ h \in {"none", "done", "failed"}
      /\ verb # "rightDown" => h = s.press
      /\ ~Works(s, verb) => h \in {s.press, "failed"}
  BY DEF Press, States
<1>2. s.dev \in [left : BOOLEAN, right : BOOLEAN, mask : 0..MaskSpan]
      /\ s.doubt \in SUBSET {"left", "right", "mask"} /\ Part(verb) \in {"left", "right"}
  BY DEF States, Part
<1>3. /\ q \in SUBSET {"left", "right", "mask"}
      /\ \A part \in {"left", "right", "mask"} \ {Part(verb)} : part \in q <=> part \in s.doubt
      /\ Part(verb) \in q <=> ~Works(s, verb)
  BY <1>2
<1>4. LET e == Effect(s.dev, verb) IN
      /\ e \in [left : BOOLEAN, right : BOOLEAN, mask : 0..MaskSpan] /\ e.mask = s.dev.mask
      /\ verb # "leftDown" => (e.left => s.dev.left)
      /\ verb # "rightDown" => (e.right => s.dev.right)
      /\ Part(verb) = "left" => e.right = s.dev.right
      /\ Part(verb) = "right" => e.left = s.dev.left
      /\ verb = "leftUp" => ~e.left
      /\ verb = "rightDown" => e.right
  BY <1>2 DEF Effect, Part
<1>5. /\ d \in [left : BOOLEAN, right : BOOLEAN, mask : 0..MaskSpan] /\ d.mask = s.dev.mask
      /\ verb # "leftDown" => (d.left => s.dev.left)
      /\ verb # "rightDown" => (d.right => s.dev.right)
      /\ Part(verb) = "left" => d.right = s.dev.right
      /\ Part(verb) = "right" => d.left = s.dev.left
      /\ verb = "leftUp" /\ Works(s, verb) => ~d.left
      /\ verb = "rightDown" /\ Works(s, verb) => d.right
  BY <1>2, <1>4 DEF Felt
<1> HIDE DEF d, q, h
<1>6. /\ t \in States /\ t.scope = s.scope /\ t.last = s.last
      /\ t.second = s.second /\ t.flash = s.flash /\ t.switch = s.switch /\ t.fsm = s.fsm
      /\ t.stop = s.stop /\ t.fault = s.fault /\ t.dev = d /\ t.doubt = q
      /\ t.press = h
  BY <1>1, <1>3, <1>5, <1>7 DEF States
<1> HIDE DEF t
<1>. QED  BY <1>3, <1>5, <1>6, <1>7 DEF t

LEMMA LeftUpCalm ==
  ASSUME NEW s \in States
  PROVE  Calm(s, LeftUp(s)) /\ (LeftUp(s).dev.left => "left" \in LeftUp(s).doubt)
<1> DEFINE t == LeftUp(s)
<1>1. /\ t \in States /\ t.scope = s.scope /\ t.press = s.press /\ t.last = s.last
      /\ t.second = s.second /\ t.flash = s.flash /\ t.switch = s.switch
      /\ t.stop = s.stop /\ t.dev.mask = s.dev.mask /\ ("mask" \in t.doubt <=> "mask" \in s.doubt)
      /\ (t.dev.left => s.dev.left) /\ t.dev.right = s.dev.right
      /\ t.dev.left => "left" \in t.doubt
  BY ButtonSent DEF LeftUp, Part
<1> HIDE DEF t
<1>2. Calm(s, t) /\ (t.dev.left => "left" \in t.doubt)
  BY <1>1 DEF Calm, Covered, LeftDown
<1>. QED  BY <1>2 DEF t

LEMMA FieldsSet ==
  ASSUME NEW s \in States, NEW f \in Triggers, NEW y \in Stops
  PROVE  /\ Calm(s, [s EXCEPT !.fsm = f]) /\ [s EXCEPT !.fsm = f].fsm = f
         /\ y.phase \notin {"preparing", "continuous"} => Calm(s, [s EXCEPT !.stop = y])
<1>1. Calm(s, [s EXCEPT !.fsm = f]) /\ [s EXCEPT !.fsm = f].fsm = f
  BY DEF Calm, States, Covered, LeftDown
<1>2. y.phase \notin {"preparing", "continuous"} => Calm(s, [s EXCEPT !.stop = y])
  BY DEF Calm, States, Covered, LeftDown
<1>. QED  BY <1>1, <1>2

(* The whole of a command for the mask.                                    *)
LEMMA MaskSent ==
  ASSUME NEW s \in States, NEW verb \in {"mask", "unmask"}, NEW y \in Stops, NEW z \in Stops,
         verb = "unmask" => y.phase \notin {"preparing", "continuous"}, z = s.stop
  PROVE  Calm(s, [Send(s, verb) EXCEPT !.stop = IF Works(s, verb) THEN y ELSE z])
<1> DEFINE t == Send(s, verb)
           u == [t EXCEPT !.stop = IF Works(s, verb) THEN y ELSE z]
<1>1. t = [s EXCEPT !.dev = IF Felt(s, verb) THEN Effect(s.dev, verb) ELSE s.dev,
                    !.press = s.press,
                    !.doubt = IF Works(s, verb) THEN s.doubt \ {"mask"}
                              ELSE s.doubt \cup {"mask"}]
  BY DEF Send, Press, Part
<1>2. /\ t \in States /\ t.dev.left = s.dev.left /\ t.dev.right = s.dev.right
      /\ t.doubt \ {"mask"} = s.doubt \ {"mask"}
  BY SendMaskIs
<1>3. MaskSpan > 0
  BY OutputAssumption
<1>4. /\ Effect(s.dev, verb).mask = IF verb = "mask" THEN (IF s.dev.mask > 0 THEN s.dev.mask ELSE MaskSpan) ELSE 0
  BY DEF Effect, States
<1>5. /\ t.scope = s.scope /\ t.press = s.press /\ t.last = s.last /\ t.second = s.second
      /\ t.flash = s.flash /\ t.switch = s.switch
      /\ "mask" \in t.doubt <=> ~Works(s, verb)
      /\ Works(s, verb) => t.dev = Effect(s.dev, verb)
  BY <1>1 DEF States, Felt
<1> HIDE DEF t
<1>6. /\ u \in States /\ u.scope = t.scope /\ u.press = t.press /\ u.last = t.last
      /\ u.second = t.second /\ u.flash = t.flash /\ u.switch = t.switch /\ u.dev = t.dev
      /\ u.doubt = t.doubt /\ u.stop = IF Works(s, verb) THEN y ELSE z
  BY <1>2 DEF States
<1> HIDE DEF u
<1>7. Covered(u)
  BY <1>3, <1>4, <1>5, <1>6 DEF Covered
<1>. QED  BY <1>2, <1>5, <1>6, <1>7 DEF Calm, LeftDown, t, u

LEMMA UnmaskCalm ==
  ASSUME NEW s \in States
  PROVE  Calm(s, Unmask(s))
<1>1. s.stop \in Stops /\ NoStop \in Stops /\ NoStop.phase = "idle"
  BY StopsAre DEF States
<1>2. Unmask(s) = [Send(s, "unmask") EXCEPT !.stop = IF Works(s, "unmask") THEN NoStop ELSE s.stop]
  BY SendMaskIs DEF Unmask
<1>. QED  BY <1>1, <1>2, MaskSent

LEMMA MaskAsCalm ==
  ASSUME NEW s \in States, NEW y \in Stops
  PROVE  Calm(s, MaskAs(s, y))
<1>1. s.stop \in Stops
  BY DEF States
<1>2. MaskAs(s, y) = [Send(s, "mask") EXCEPT !.stop = IF Works(s, "mask") THEN y ELSE s.stop]
  BY SendMaskIs DEF MaskAs
<1>. QED  BY <1>1, <1>2, MaskSent

LEMMA EndPreparingCalm ==
  ASSUME NEW s \in States
  PROVE  Calm(s, EndPreparing(s))
<1> DEFINE t == [s EXCEPT !.stop = Fired(0)]
<1>1. Fired(0) \in Stops /\ Fired(0).phase = "after" /\ s.fsm \in Triggers
  BY StopsAre, PartsAssumption DEF States
<1>2. Calm(s, t)
  BY <1>1, FieldsSet
<1> HIDE DEF t
<1>3. Calm(t, Unmask(t))
  BY <1>2, UnmaskCalm DEF Calm
<1>. QED  BY <1>2, <1>3, CalmTwice DEF EndPreparing, t

LEMMA EndStopCalm ==
  ASSUME NEW s \in States
  PROVE  Calm(s, EndStop(s))
BY EndPreparingCalm, UnmaskCalm, CalmSelf DEF EndStop, If

LEMMA ResetTriggerCalm ==
  ASSUME NEW s \in States
  PROVE  Calm(s, ResetTrigger(s))
BY FieldsSet, ResetIs, StopsAre DEF ResetTrigger, States

-----------------------------------------------------------------------------
(* A step that presses no button, whatever becomes of the scope.           *)
Falls(s, t) ==
    /\ t \in States /\ t.press = s.press
    /\ t.last = s.last /\ t.second = s.second /\ t.flash = s.flash /\ t.switch = s.switch
    /\ t.dev.left => s.dev.left
    /\ t.dev.right => s.dev.right
    /\ LeftDown(t) => LeftDown(s)
    /\ Covered(s) => Covered(t)

LEMMA FallsTwice ==
  ASSUME NEW s, NEW t, NEW u, Falls(s, t), Falls(t, u)
  PROVE  Falls(s, u)
BY DEF Falls

LEMMA CalmFalls ==
  ASSUME NEW s, NEW t, Calm(s, t)
  PROVE  Falls(s, t)
BY DEF Falls, Calm

LEMMA ScopeFalls ==
  ASSUME NEW s \in States, NEW x \in Scopes
  PROVE  LET t == [s EXCEPT !.scope = x] IN
         Falls(s, t) /\ t.scope = x /\ t.dev = s.dev /\ t.fsm = s.fsm
<1> DEFINE t == [s EXCEPT !.scope = x]
<1>1. /\ t \in States /\ t.press = s.press /\ t.last = s.last /\ t.second = s.second
      /\ t.flash = s.flash /\ t.switch = s.switch /\ t.fsm = s.fsm
      /\ t.stop = s.stop /\ t.scope = x /\ t.dev = s.dev /\ t.doubt = s.doubt
  BY DEF States
<1> HIDE DEF t
<1>2. Falls(s, t)
  BY <1>1 DEF Falls, Covered, LeftDown
<1>. QED  BY <1>1, <1>2 DEF t

LEMMA RightUpFalls ==
  ASSUME NEW s \in States
  PROVE  Falls(s, RightUp(s)) /\ RightUp(s).scope = s.scope /\ RightUp(s).fsm = s.fsm
<1> DEFINE t == RightUp(s)
<1>1. /\ t \in States /\ t.scope = s.scope /\ t.press = s.press /\ t.last = s.last
      /\ t.second = s.second /\ t.flash = s.flash /\ t.switch = s.switch /\ t.fsm = s.fsm
      /\ t.stop = s.stop /\ t.dev.mask = s.dev.mask /\ ("mask" \in t.doubt <=> "mask" \in s.doubt)
      /\ (t.dev.left => s.dev.left) /\ (t.dev.right => s.dev.right)
      /\ ("left" \in t.doubt <=> "left" \in s.doubt)
  BY ButtonSent DEF RightUp, Part
<1> HIDE DEF t
<1>2. Falls(s, t)
  BY <1>1 DEF Falls, Covered, LeftDown
<1>. QED  BY <1>1, <1>2 DEF t

LEMMA RightUpRetriedFalls ==
  ASSUME NEW s \in States
  PROVE  LET t == RightUpRetried(s) IN
         Falls(s, t) /\ t.scope \in {s.scope, Retry(s.scope)}
<1> DEFINE t == RightUp(s)
           u == [t EXCEPT !.scope = Retry(t.scope)]
<1>1. Falls(s, t) /\ t.scope = s.scope /\ t \in States /\ t.scope \in Scopes
  BY RightUpFalls DEF Falls, States
<1>2. RightUpRetried(s) = IF Works(s, "rightUp") THEN t ELSE u
  BY DEF RightUpRetried
<1> HIDE DEF t
<1>3. Retry(t.scope) \in Scopes
  BY <1>1, ZeroIsTime DEF Scopes, Retry
<1>4. Falls(t, u) /\ u.scope = Retry(t.scope)
  BY <1>1, <1>3, ScopeFalls
<1> HIDE DEF u
<1>. QED  BY <1>1, <1>2, <1>4, FallsTwice

(* All is let go.                                                          *)
Gone(s, t) == Falls(s, t) /\ ~t.scope.engaged /\ ~t.scope.pending

LEMMA LetGoGone ==
  ASSUME NEW s \in States
  PROVE  Gone(s, LetGo(s))
<1> DEFINE r == ForceRelease(s.scope)
           t == [s EXCEPT !.scope = r.scope]
<1>1. r.scope \in Scopes /\ ~r.scope.engaged /\ ~r.scope.pending
  BY ForceReleaseIs DEF States
<1>2. LetGo(s) \in {t, RightUp(t)}
  BY DEF LetGo, If
<1>3. Falls(s, t) /\ t.scope = r.scope
  BY <1>1, ScopeFalls
<1> HIDE DEF t, r
<1>4. Falls(t, RightUp(t)) /\ RightUp(t).scope = t.scope
  BY <1>3, RightUpFalls DEF Falls
<1>. QED  BY <1>1, <1>2, <1>3, <1>4, FallsTwice DEF Gone

LEMMA GoneThenCalm ==
  ASSUME NEW s, NEW t, NEW u, Gone(s, t), Calm(t, u)
  PROVE  Gone(s, u)
BY CalmFalls, FallsTwice DEF Gone, Calm

LEMMA ReleaseHeldGone ==
  ASSUME NEW s \in States
  PROVE  Gone(s, ReleaseHeldButtons(s))
<1> DEFINE r == ResetTrigger(s)
           t == LetGo(r)
           u == IF Pressed(s.fsm) THEN LeftUp(t) ELSE t
<1>1. ReleaseHeldButtons(s) = EndStop(u)
  BY DEF ReleaseHeldButtons, If, CompleteShot
<1>2. Calm(s, r) /\ r \in States
  BY ResetTriggerCalm DEF Calm
<1> HIDE DEF r
<1>3. Gone(s, t) /\ t \in States
  BY <1>2, LetGoGone, CalmFalls, FallsTwice DEF Gone, Falls
<1> HIDE DEF t
<1>4. Calm(t, u) /\ u \in States
  BY <1>3, LeftUpCalm, CalmSelf DEF Calm
<1> HIDE DEF u
<1>5. Calm(u, EndStop(u))
  BY <1>4, EndStopCalm
<1>. QED  BY <1>1, <1>3, <1>4, <1>5, CalmTwice, GoneThenCalm

-----------------------------------------------------------------------------
(* The scope is opened only where it is not open.                          *)
TapScope(x) == x.pending => x.engaged /\ x.mode = 1

Turning(x, zone, allowed, mode, r) ==
    /\ r.scope \in Scopes /\ r.scope.mode = mode
    /\ r.scope.pending => r.scope.engaged /\ mode = 1
    /\ r.scope.engaged /\ mode = 2 /\ "press" \notin r.act
          => x.engaged /\ x.mode = 2 /\ "release" \notin r.act
    /\ "press" \in r.act => zone /\ allowed /\ r.scope.engaged /\ ~(x.engaged /\ x.mode = mode)
    /\ allowed /\ x.engaged /\ x.mode = mode => r.scope.engaged

LEMMA TickScopeTurns ==
  ASSUME NEW x \in Scopes, TapScope(x), NEW zone \in BOOLEAN,
         NEW allowed \in BOOLEAN, NEW mode \in 0..2, NEW delay \in 0..Horizon
  PROVE  Turning(x, zone, allowed, mode, TickScope(x, zone, allowed, mode, delay))
<1> DEFINE tapped  == x.pending /\ x.tap = 0
           pending == x.pending /\ ~tapped
           changed == x.engaged /\ mode # x.mode
           engaged == x.engaged /\ ~changed
           opens   == zone /\ mode > 0 /\ ~engaged
           y == [engaged |-> engaged \/ opens, mode |-> mode,
                 pending |-> (pending /\ ~changed) \/ (opens /\ mode = 1),
                 tap |-> IF opens /\ mode = 1 THEN Longer(MinTap, delay) ELSE x.tap]
           act == (IF tapped \/ (changed /\ (x.mode = 2 \/ pending)) THEN {"release"} ELSE {})
                  \cup (IF opens THEN {"press"} ELSE {})
           r == TickScope(x, zone, allowed, mode, delay)
<1>1. r.scope \in Scopes
  BY TickScopeIs
<1>2. CASE ~allowed
  <2> DEFINE z == ForceRelease(x)
  <2>1. r = Turns([z.scope EXCEPT !.mode = mode], z.act)
    BY <1>2 DEF TickScope
  <2>2. z.scope \in Scopes /\ ~z.scope.engaged /\ ~z.scope.pending
    BY ForceReleaseIs
  <2>3. "press" \notin z.act
    BY DEF ForceRelease, Turns
  <2> HIDE DEF z
  <2>4. LET w == [z.scope EXCEPT !.mode = mode] IN w.mode = mode /\ ~w.engaged /\ ~w.pending
    BY <2>2 DEF Scopes
  <2>5. r.act = z.act /\ r.scope = [z.scope EXCEPT !.mode = mode]
    BY <2>1 DEF Turns
  <2> HIDE DEF r
  <2>. QED  BY <1>1, <1>2, <2>3, <2>4, <2>5 DEF r, Turning
<1>3. CASE allowed
  <2>1. r.scope = y /\ r.act = act
    BY <1>3 DEF TickScope, Turns
  <2>2. x.engaged \in BOOLEAN /\ x.pending \in BOOLEAN /\ x.mode \in 0..2
    BY DEF Scopes
  <2>3. /\ y.mode = mode /\ (y.engaged <=> engaged \/ opens)
        /\ (y.pending <=> (pending /\ ~changed) \/ (opens /\ mode = 1))
    OBVIOUS
  <2>4. ("press" \in act <=> opens)
        /\ ("release" \in act <=> tapped \/ (changed /\ (x.mode = 2 \/ pending)))
    OBVIOUS
  <2> HIDE DEF y, act, r
  <2>5. y.pending => y.engaged /\ mode = 1
    BY <2>2, <2>3 DEF TapScope
  <2>6. y.engaged /\ mode = 2 /\ "press" \notin act
          => x.engaged /\ x.mode = 2 /\ "release" \notin act
    BY <2>2, <2>3, <2>4 DEF TapScope
  <2>7. "press" \in act => zone /\ y.engaged /\ ~(x.engaged /\ x.mode = mode)
    BY <2>2, <2>3, <2>4
  <2>8. x.engaged /\ x.mode = mode => y.engaged
    BY <2>2, <2>3
  <2>. QED  BY <1>1, <1>3, <2>1, <2>3, <2>5, <2>6, <2>7, <2>8 DEF r, Turning
<1>. QED  BY <1>2, <1>3

(* The program's scope is open as a tap opens it.                          *)
TapIsOn(s) == s.scope.engaged /\ s.scope.mode = 1

(* A retry of a release leaves the scope open.                             *)
LEMMA RetryTurns ==
  ASSUME NEW x \in Scopes
  PROVE  /\ Retry(x).engaged = x.engaged /\ Retry(x).mode = x.mode /\ Retry(x) \in Scopes
         /\ Retry(x).pending => x.pending \/ (x.engaged /\ x.mode = 1)
BY ZeroIsTime DEF Retry, Scopes

LEMMA OpenScopeTurns ==
  ASSUME NEW s \in States, TapsOnly(s), s.scope.engaged, NEW p, IsProfile(p)
  PROVE  LET t == OpenScope(s, p) IN
         /\ t \in States /\ t.last = s.last /\ t.second = s.second /\ t.flash = s.flash
         /\ t.switch = s.switch /\ t.scope.mode = s.scope.mode
         /\ t.dev.left => s.dev.left
         /\ LeftDown(t) => LeftDown(s)
         /\ Covered(s) => Covered(t)
         /\ TapsOnly(t) /\ HeldDown(t)
         /\ t.press \in {s.press, "failed"} \/ t.scope = s.scope
<1> DEFINE r == Send(s, "rightDown")
           n == [r EXCEPT !.tapped = @ \/ p.scope = 1]
<1>1. OpenScope(s, p) = IF Works(s, "rightDown") THEN n ELSE LetGo(r)
  BY DEF OpenScope
<1>2. /\ r \in States /\ r.scope = s.scope /\ r.last = s.last
      /\ r.second = s.second /\ r.flash = s.flash /\ r.switch = s.switch
      /\ r.stop = s.stop /\ r.dev.mask = s.dev.mask
      /\ ("left" \in r.doubt <=> "left" \in s.doubt) /\ ("mask" \in r.doubt <=> "mask" \in s.doubt)
      /\ (r.dev.left => s.dev.left) /\ (Works(s, "rightDown") => r.dev.right)
      /\ ~Works(s, "rightDown") => r.press \in {s.press, "failed"}
  BY ButtonSent DEF Part
<1>3. /\ LeftDown(r) => LeftDown(s)
      /\ Covered(s) => Covered(r)
  BY <1>2 DEF LeftDown, Covered
<1> HIDE DEF r
<1>4. /\ n \in States /\ n.scope = r.scope /\ n.last = r.last /\ n.second = r.second
      /\ n.flash = r.flash /\ n.switch = r.switch /\ n.stop = r.stop /\ n.dev = r.dev
      /\ n.doubt = r.doubt
  <2> DEFINE noted == r.tapped \/ p.scope = 1
  <2>1. noted \in BOOLEAN /\ n = [r EXCEPT !.tapped = noted]
    OBVIOUS
  <2> HIDE DEF n, noted
  <2>. QED  BY <1>2, <2>1 DEF States
<1> HIDE DEF n
<1>5. Gone(r, LetGo(r)) /\ LetGo(r).scope.mode = r.scope.mode
  <2>1. Gone(r, LetGo(r))
    BY <1>2, LetGoGone
  <2> DEFINE z == ForceRelease(r.scope)
             k == [r EXCEPT !.scope = z.scope]
  <2>2. LetGo(r) \in {k, RightUp(k)}
    BY DEF LetGo, If
  <2>3. z.scope \in Scopes /\ z.scope.mode = r.scope.mode
    BY <1>2, ForceReleaseIs DEF States
  <2>4. k \in States /\ k.scope = z.scope
    BY <1>2, <2>3, ScopeFalls DEF Falls
  <2> HIDE DEF k, z
  <2>5. RightUp(k).scope = k.scope
    BY <2>4, RightUpFalls
  <2>. QED  BY <2>1, <2>2, <2>3, <2>4, <2>5
<1>6. CASE Works(s, "rightDown")
  <2>1. TapsOnly(n) /\ HeldDown(n) /\ (LeftDown(n) => LeftDown(s)) /\ (Covered(s) => Covered(n))
    BY <1>2, <1>3, <1>4, <1>6 DEF TapsOnly, HeldDown, LeftDown, Covered
  <2>. QED  BY <1>1, <1>2, <1>4, <1>6, <2>1
<1>7. CASE ~Works(s, "rightDown")
  <2> DEFINE t == LetGo(r)
  <2> HIDE DEF t
  <2>1. Falls(r, t) /\ ~t.scope.engaged /\ ~t.scope.pending /\ t.scope.mode = r.scope.mode
    BY <1>5 DEF Gone, t
  <2>2. TapsOnly(t) /\ HeldDown(t)
    BY <2>1 DEF TapsOnly, HeldDown
  <2>3. OpenScope(s, p) = t
    BY <1>1, <1>7 DEF t
  <2>4. t.press \in {s.press, "failed"}
    BY <1>2, <1>7, <2>1 DEF Falls
  <2>. QED  BY <1>2, <1>3, <2>1, <2>2, <2>3, <2>4 DEF Falls
<1>. QED  BY <1>6, <1>7

(* A step of a tick in which the trigger does not shoot.                   *)
Turned(s, t, p) ==
    /\ t \in States /\ t.last = s.last /\ t.second = s.second /\ t.flash = s.flash
    /\ t.dev.left => s.dev.left
    /\ LeftDown(t) => LeftDown(s)
    /\ Covered(s) => Covered(t)
    /\ TapsOnly(t)
    /\ HeldDown(s) => HeldDown(t)
    /\ MayTap(p) /\ TapIsOn(s) => TapIsOn(t) /\ t.press = s.press
    /\ MayTap(p) => t.press \in {s.press, "failed"} \/ TapIsOn(t)
    /\ t.dev.right => s.dev.right \/ (p.enabled /\ ~p.right)

LEMMA ScopedTurns ==
  ASSUME NEW s \in States, TapsOnly(s), NEW p, IsProfile(p), NEW zone \in BOOLEAN
  PROVE  /\ Turned(s, Scoped(s, p, zone), p) /\ Scoped(s, p, zone).switch = s.switch
         /\ Scoped(s, p, zone).scope.mode = p.scope
<1> DEFINE t == TickScope(s.scope, zone, Allowed(p) /\ p.enabled, p.scope, p.duration)
           s1 == [s EXCEPT !.scope = t.scope]
           r1 == ResetTrigger(s1)
           s2 == IF s.scope.mode = p.scope THEN s1
                 ELSE IF Pressed(s.fsm) THEN LeftUp(r1) ELSE r1
           s3 == IF "release" \in t.act THEN RightUpRetried(s2) ELSE s2
           z == OpenScope(s3, p)
<1>1. Scoped(s, p, zone) = IF "press" \in t.act THEN z ELSE s3
  BY DEF Scoped, If, CompleteShot
<1>2. /\ t.scope \in Scopes /\ t.scope.mode = p.scope
      /\ t.scope.pending => t.scope.engaged /\ p.scope = 1
      /\ t.scope.engaged /\ p.scope = 2 /\ "press" \notin t.act
            => s.scope.engaged /\ s.scope.mode = 2 /\ "release" \notin t.act
      /\ "press" \in t.act => t.scope.engaged /\ ~(s.scope.engaged /\ s.scope.mode = p.scope)
      /\ "press" \in t.act => p.enabled /\ ~p.right
      /\ MayTap(p) /\ s.scope.engaged /\ s.scope.mode = 1 => t.scope.engaged
  <2>1. /\ s.scope \in Scopes /\ (Allowed(p) /\ p.enabled) \in BOOLEAN /\ p.scope \in 0..2
        /\ p.duration \in 0..Horizon
    BY DEF States, IsProfile, Allowed
  <2>2. MayTap(p) => (Allowed(p) /\ p.enabled) /\ p.scope = 1
    BY DEF MayTap, Allowed
  <2>3. TapScope(s.scope)
    BY DEF TapsOnly, TapScope
  <2>4. Turning(s.scope, zone, Allowed(p) /\ p.enabled, p.scope, t)
    BY <2>1, <2>3, TickScopeTurns
  <2> HIDE DEF t
  <2>. QED  BY <2>2, <2>4 DEF Turning, Allowed
<1> HIDE DEF t
<1>3. Falls(s, s1) /\ s1.scope = t.scope /\ s1.dev = s.dev /\ s1 \in States
  BY <1>2, ScopeFalls DEF Falls
<1> HIDE DEF s1
<1>4. Calm(s1, r1) /\ r1 \in States
  BY <1>3, ResetTriggerCalm DEF Calm
<1> HIDE DEF r1
<1>5. Calm(r1, LeftUp(r1)) /\ Calm(s1, s1)
  BY <1>3, <1>4, LeftUpCalm, CalmSelf
<1>6. Calm(s1, s2) /\ s2 \in States
  BY <1>4, <1>5, CalmTwice DEF Calm
<1> HIDE DEF s2
<1>7. Falls(s, s2) /\ s2.scope = t.scope /\ s2.dev.right = s.dev.right
  BY <1>3, <1>6, CalmFalls, FallsTwice DEF Calm
<1>8. Falls(s2, RightUpRetried(s2)) /\ RightUpRetried(s2).scope \in {s2.scope, Retry(s2.scope)}
  BY <1>6, RightUpRetriedFalls
<1>9. /\ Falls(s, s3) /\ s3 \in States /\ s3.scope \in {t.scope, Retry(t.scope)}
      /\ "release" \notin t.act => s3.dev.right = s.dev.right
  BY <1>6, <1>7, <1>8, FallsTwice DEF Falls
<1> HIDE DEF s3
<1>10. /\ s3.scope.engaged = t.scope.engaged /\ s3.scope.mode = p.scope
       /\ s3.scope.pending => s3.scope.engaged /\ s3.scope.mode = 1
  BY <1>2, <1>9, RetryTurns
<1>11. TapsOnly(s3)
  BY <1>10 DEF TapsOnly
<1>12. "press" \notin t.act => Turned(s, s3, p) /\ s3.switch = s.switch
  <2>1. SUFFICES ASSUME "press" \notin t.act PROVE Turned(s, s3, p) /\ s3.switch = s.switch
    OBVIOUS
  <2>2. HeldDown(s) => HeldDown(s3)
    BY <1>2, <1>9, <1>10, <2>1 DEF HeldDown
  <2>3. MayTap(p) /\ TapIsOn(s) => TapIsOn(s3)
    BY <1>2, <1>9, <1>10 DEF MayTap, TapIsOn, Falls
  <2>. QED  BY <1>9, <1>11, <2>2, <2>3 DEF Turned, Falls
<1>13. "press" \in t.act => Turned(s, z, p) /\ z.switch = s.switch /\ z.scope.mode = p.scope
  <2>1. SUFFICES ASSUME "press" \in t.act
                 PROVE  Turned(s, z, p) /\ z.switch = s.switch /\ z.scope.mode = p.scope
    OBVIOUS
  <2>2. /\ z \in States /\ z.last = s3.last /\ z.second = s3.second /\ z.flash = s3.flash
        /\ z.switch = s3.switch /\ z.scope.mode = s3.scope.mode
        /\ z.dev.left => s3.dev.left
        /\ LeftDown(z) => LeftDown(s3)
        /\ Covered(s3) => Covered(z)
        /\ TapsOnly(z) /\ HeldDown(z)
        /\ z.press \in {s3.press, "failed"} \/ z.scope = s3.scope
    BY <1>2, <1>9, <1>10, <1>11, <2>1, OpenScopeTurns
  <2> HIDE DEF z
  <2>3. ~(MayTap(p) /\ TapIsOn(s))
    BY <1>2, <2>1 DEF MayTap, TapIsOn
  <2>4. MayTap(p) => z.press \in {s.press, "failed"} \/ TapIsOn(z)
    BY <1>2, <1>9, <1>10, <2>1, <2>2 DEF MayTap, TapIsOn, Falls
  <2>. QED  BY <1>2, <1>9, <1>10, <2>1, <2>2, <2>3, <2>4 DEF Turned, Falls
<1>. QED  BY <1>1, <1>10, <1>12, <1>13

-----------------------------------------------------------------------------
(* Nothing is opened when a target is lost.                                *)
LEMMA LetGoOnLossFalls ==
  ASSUME NEW s \in States, NEW loss, loss.fsm \in Triggers, loss.right.scope \in Scopes
  PROVE  LET t == LetGoOnLoss(s, loss) IN
         /\ Falls(s, t) /\ t.scope \in {loss.right.scope, Retry(loss.right.scope)}
         /\ "release" \notin loss.right.act => t.dev.right = s.dev.right
<1> DEFINE k0 == [s EXCEPT !.fsm = loss.fsm]
           k == [k0 EXCEPT !.scope = loss.right.scope]
           r == IF "release" \in loss.right.act THEN RightUpRetried(k) ELSE k
           u == IF Pressed(s.fsm) /\ ~loss.keeps THEN LeftUp(r) ELSE r
<1>1. LetGoOnLoss(s, loss) = EndStop(u)
  <2>1. k = [s EXCEPT !.fsm = loss.fsm, !.scope = loss.right.scope]
    OBVIOUS
  <2>. QED  BY <2>1 DEF LetGoOnLoss, If, CompleteShot
<1>2. Calm(s, k0) /\ k0 \in States
  BY FieldsSet, StopsAre DEF Calm
<1> HIDE DEF k0
<1>3. Falls(s, k) /\ k \in States /\ k.scope = loss.right.scope /\ k.dev.right = s.dev.right
  BY <1>2, ScopeFalls, CalmFalls, FallsTwice DEF Calm, Falls
<1> HIDE DEF k
<1>4. Falls(k, RightUpRetried(k)) /\ RightUpRetried(k).scope \in {k.scope, Retry(k.scope)}
  BY <1>3, RightUpRetriedFalls
<1>5. /\ Falls(s, r) /\ r \in States /\ r.scope \in {loss.right.scope, Retry(loss.right.scope)}
      /\ "release" \notin loss.right.act => r.dev.right = s.dev.right
  BY <1>3, <1>4, FallsTwice DEF Falls
<1> HIDE DEF r
<1>6. Calm(r, u) /\ u \in States
  BY <1>5, LeftUpCalm, CalmSelf DEF Calm
<1> HIDE DEF u
<1>7. Calm(r, EndStop(u))
  BY <1>6, EndStopCalm, CalmTwice
<1>. QED  BY <1>1, <1>5, <1>7, CalmFalls, FallsTwice DEF Calm

LEMMA ReleaseTargetTurns ==
  ASSUME NEW s \in States, TapsOnly(s), NEW p, IsProfile(p), NEW grace \in BOOLEAN,
         MayTap(p) => grace
  PROVE  /\ Turned(s, ReleaseTargetButtons(s, p, grace), p)
         /\ ReleaseTargetButtons(s, p, grace).switch = s.switch
<1> DEFINE keeps == s.scope.mode = p.scope /\ KeepsOn(s.fsm, p.grace)
           loss == ReleaseOnTargetLoss(s, p)
           all == Everything(s)
<1>1. s.fsm \in Triggers /\ s.scope \in Scopes /\ p.grace \in 0..Horizon /\ p.scope \in 0..2
  BY DEF States, IsProfile
<1>2. /\ all.fsm \in Triggers /\ all.right.scope \in Scopes
      /\ ~all.right.scope.engaged /\ ~all.right.scope.pending
  BY <1>1, ResetIs, ForceReleaseIs DEF Everything
<1>3. loss.fsm \in Triggers
  BY <1>1, ResetIs, MissedIs DEF ReleaseOnTargetLoss
<1>4. /\ loss.right.scope \in Scopes /\ loss.right.scope.mode = p.scope
      /\ loss.right.scope.pending => loss.right.scope.engaged /\ p.scope = 1
      /\ loss.right.scope.engaged /\ p.scope = 2
            => s.scope.engaged /\ s.scope.mode = 2 /\ "release" \notin loss.right.act
      /\ s.scope.engaged /\ s.scope.mode = p.scope => loss.right.scope.engaged
  <2>1. loss.right = TickScope(s.scope, keeps /\ s.scope.engaged, TRUE, p.scope, 0)
    BY DEF ReleaseOnTargetLoss
  <2>2. (keeps /\ s.scope.engaged) \in BOOLEAN
    OBVIOUS
  <2>3. keeps => s.scope.mode = p.scope
    OBVIOUS
  <2>4. TapScope(s.scope)
    BY DEF TapsOnly, TapScope
  <2> HIDE DEF loss
  <2>5. Turning(s.scope, keeps /\ s.scope.engaged, TRUE, p.scope, loss.right)
    BY <1>1, <2>1, <2>2, <2>4, ZeroIsTime, TickScopeTurns
  <2> HIDE DEF keeps
  <2>. QED  BY <2>3, <2>5 DEF Turning
<1>5. ReleaseTargetButtons(s, p, grace) =
        LetGoOnLoss(s, IF grace /\ p.enabled /\ ~p.switch THEN loss ELSE all)
  BY DEF ReleaseTargetButtons
<1> HIDE DEF loss, all, keeps
<1>6. CASE grace /\ p.enabled /\ ~p.switch
  <2> DEFINE t == LetGoOnLoss(s, loss)
  <2>1. /\ Falls(s, t) /\ t.scope \in {loss.right.scope, Retry(loss.right.scope)}
        /\ "release" \notin loss.right.act => t.dev.right = s.dev.right
    BY <1>3, <1>4, LetGoOnLossFalls
  <2> HIDE DEF t
  <2>2. /\ t.scope.engaged = loss.right.scope.engaged /\ t.scope.mode = p.scope
        /\ t.scope.pending => t.scope.engaged /\ t.scope.mode = 1
    BY <1>4, <2>1, RetryTurns
  <2>3. TapsOnly(t)
    BY <2>2 DEF TapsOnly
  <2>4. HeldDown(s) => HeldDown(t)
    BY <1>4, <2>1, <2>2 DEF HeldDown
  <2>5. MayTap(p) /\ TapIsOn(s) => TapIsOn(t)
    BY <1>4, <2>1, <2>2 DEF MayTap, TapIsOn, Falls
  <2>6. Turned(s, t, p) /\ t.switch = s.switch
    BY <2>1, <2>3, <2>4, <2>5 DEF Turned, Falls
  <2>. QED  BY <1>5, <1>6, <2>6 DEF t
<1>7. CASE ~(grace /\ p.enabled /\ ~p.switch)
  <2> DEFINE t == LetGoOnLoss(s, all)
  <2>1. /\ Falls(s, t) /\ t.scope \in {all.right.scope, Retry(all.right.scope)}
    BY <1>2, LetGoOnLossFalls
  <2> HIDE DEF t
  <2>2. ~t.scope.engaged /\ ~t.scope.pending
    BY <1>2, <2>1, RetryTurns
  <2>3. TapsOnly(t) /\ HeldDown(t) /\ ~MayTap(p)
    BY <1>7, <2>2 DEF TapsOnly, HeldDown, MayTap
  <2>4. Turned(s, t, p) /\ t.switch = s.switch
    BY <2>1, <2>3 DEF Turned, Falls
  <2>. QED  BY <1>5, <1>7, <2>4 DEF t
<1>. QED  BY <1>6, <1>7

-----------------------------------------------------------------------------
(* The steps before a shot press nothing.                                  *)
LEMMA UnmaskMaybe ==
  ASSUME NEW s \in States
  PROVE  \A t \in {s, Unmask(s)} : Calm(s, t) /\ t \in States
BY UnmaskCalm, CalmSelf DEF Calm

LEMMA KeepMaskedCalm ==
  ASSUME NEW s \in States, NEW p, NEW zone
  PROVE  Calm(s, KeepMasked(s, p, zone))
<1> DEFINE s1 == IF Active(s) /\ ~LastingOn(s) THEN Unmask(s) ELSE s
           s2 == IF Expires /\ IsStale(s1.stop) THEN Unmask(s1) ELSE s1
           s3 == IF LastingOn(s) THEN Unmask(s) ELSE s
<1>1. KeepMasked(s, p, zone) \in {s3, IF Active(s2) THEN s2 ELSE MaskAs(s2, Lasting)}
  BY DEF KeepMasked, If
<1>2. s1 \in {s, Unmask(s)} /\ s3 \in {s, Unmask(s)} /\ s2 \in {s1, Unmask(s1)}
  OBVIOUS
<1> HIDE DEF s1, s2, s3
<1>3. Calm(s, s1) /\ s1 \in States /\ Calm(s, s3)
  BY <1>2, UnmaskMaybe
<1>4. Calm(s1, s2) /\ s2 \in States
  BY <1>2, <1>3, UnmaskMaybe
<1>5. Calm(s2, MaskAs(s2, Lasting))
  BY <1>4, StopsAre, MaskAsCalm
<1>6. Calm(s, s2) /\ Calm(s, MaskAs(s2, Lasting))
  BY <1>3, <1>4, <1>5, CalmTwice
<1>. QED  BY <1>1, <1>3, <1>6

LEMMA PrepareCalm ==
  ASSUME NEW s \in States
  PROVE  Calm(s, Prepare(s))
<1> DEFINE t == IF Active(s) THEN Unmask(s) ELSE s
<1>1. Prepare(s) \in {t, MaskAs(t, Prepared)}
  BY DEF Prepare, If
<1>2. t \in {s, Unmask(s)}
  OBVIOUS
<1> HIDE DEF t
<1>3. Calm(s, t) /\ t \in States
  BY <1>2, UnmaskMaybe
<1>4. Calm(t, MaskAs(t, Prepared))
  BY <1>3, StopsAre, MaskAsCalm
<1>. QED  BY <1>1, <1>3, <1>4, CalmTwice

LEMMA MaskedCalm ==
  ASSUME NEW s \in States, NEW p, NEW act
  PROVE  Calm(s, Masked(s, p, act))
<1>1. PICK s1 \in {s, EndPreparing(s)} :
        LET s2 == IF "prepare" \in act /\ Timed(p) THEN Prepare(s1) ELSE s1
        IN Masked(s, p, act) \in {s2, Prepare(s2)}
  BY DEF Masked, If
<1>2. Calm(s, s1) /\ s1 \in States
  BY EndPreparingCalm, CalmSelf DEF Calm
<1>3. PICK s2 \in {s1, Prepare(s1)} : Masked(s, p, act) \in {s2, Prepare(s2)}
  BY <1>1
<1>4. Calm(s1, s2) /\ s2 \in States
  BY <1>2, PrepareCalm, CalmSelf DEF Calm
<1>5. Calm(s2, Prepare(s2)) /\ Calm(s, s2)
  BY <1>2, <1>4, PrepareCalm, CalmTwice
<1>. QED  BY <1>3, <1>5, CalmTwice

LEMMA RefusedCalm ==
  ASSUME NEW s \in States
  PROVE  Calm(s, Refused(s))
<1> DEFINE t == ResetTrigger(s)
<1>1. Refused(s) \in {t, Unmask(t)}
  BY DEF Refused, If
<1>2. Calm(s, t) /\ t \in States
  BY ResetTriggerCalm DEF Calm
<1> HIDE DEF t
<1>3. Calm(t, Unmask(t))
  BY <1>2, UnmaskCalm
<1>. QED  BY <1>1, <1>2, <1>3, CalmTwice

LEMMA HoldFireCalm ==
  ASSUME NEW s \in States, NEW p
  PROVE  Calm(s, HoldFire(s, p))
<1> DEFINE t == KeepMasked(s, p, FALSE)
           r == ResetTrigger(t)
           s1 == IF Pressed(s.fsm) THEN LeftUp(r) ELSE r
<1>1. HoldFire(s, p) \in {s1, EndPreparing(s1)}
  BY DEF HoldFire, If, CompleteShot
<1>2. Calm(s, t)
  BY KeepMaskedCalm
<1> HIDE DEF t
<1>3. Calm(t, r) /\ r \in States
  <2>1. t \in States
    BY <1>2 DEF Calm
  <2>. QED  BY <2>1, ResetTriggerCalm DEF Calm
<1> HIDE DEF r
<1>4. Calm(r, s1) /\ s1 \in States
  BY <1>3, LeftUpCalm, CalmSelf DEF Calm
<1> HIDE DEF s1
<1>5. Calm(s1, EndPreparing(s1)) /\ Calm(s, s1)
  BY <1>2, <1>3, <1>4, EndPreparingCalm, CalmTwice
<1>. QED  BY <1>1, <1>5, CalmTwice

LEMMA ConfigureCalm ==
  ASSUME NEW s \in States, NEW p, IsProfile(p)
  PROVE  Calm(s, Configure(s, p))
<1> DEFINE f == [Reset(s.fsm) EXCEPT !.mode = FireMode(p)]
           t == [s EXCEPT !.fsm = f]
<1>1. s.fsm \in Triggers /\ FireMode(p) \in FireModes
  BY DEF States, IsProfile, FireMode, FireModes
<1>2. f \in Triggers
  <2>1. Reset(s.fsm) \in Triggers
    BY <1>1, ResetIs
  <2>. QED  BY <1>1, <2>1 DEF Triggers
<1>3. Configure(s, p) \in {s, t, LeftUp(t)}
  BY DEF Configure, If, CompleteShot
<1> HIDE DEF f
<1>4. Calm(s, t) /\ t \in States
  BY <1>2, FieldsSet, StopsAre DEF Calm
<1> HIDE DEF t
<1>. QED  BY <1>3, <1>4, LeftUpCalm, CalmSelf, CalmTwice

-----------------------------------------------------------------------------
(* The shot itself.                                                        *)
(* The mask a shot needs is on.                                            *)
UnderMask(s, p) ==
    ~Expires /\ MaskCapable /\ p.stop # 0 /\ "mask" \notin s.doubt
       => s.dev.mask > 0 \/ (Timed(p) /\ p.after = 0)

(* A shot at a profile with a weapon switch lets all go.                   *)
Switched(s, t, p) ==
    /\ p.switch /\ t \in States /\ t.last = s.last /\ t.second = s.second /\ t.flash = s.flash
    /\ ~t.scope.engaged /\ ~t.scope.pending /\ t.press = s.press /\ ~LeftDown(t)
    /\ t.dev.right => s.dev.right
    /\ Covered(s) => Covered(t)

LEMMA CompleteSwitchTurns ==
  ASSUME NEW s \in States, NEW p, p.switch
  PROVE  Switched(s, ResetTrigger(CompleteSwitch(s)), p)
<1> DEFINE t == LeftUp(s)
           u == LetGo(t)
           v == [u EXCEPT !.tapped = FALSE]
           w == [v EXCEPT !.switch = 1]
<1>1. Calm(s, t) /\ (t.dev.left => "left" \in t.doubt) /\ t \in States
  BY LeftUpCalm DEF Calm
<1>2. CompleteSwitch(s) = Request(v)
  BY DEF CompleteSwitch, FinishSwitch31Shot
<1> HIDE DEF t
<1>3. ~LeftDown(t)
  BY <1>1 DEF LeftDown
<1>4. Falls(t, u) /\ ~u.scope.engaged /\ ~u.scope.pending /\ u \in States
  BY <1>1, LetGoGone DEF Gone, Falls
<1>5. Falls(s, u) /\ ~LeftDown(u)
  BY <1>1, <1>3, <1>4, CalmFalls, FallsTwice DEF Falls
<1> HIDE DEF u
<1>6. /\ v \in States /\ v.last = u.last /\ v.second = u.second /\ v.flash = u.flash
      /\ v.scope = u.scope /\ v.stop = u.stop /\ v.dev = u.dev /\ v.doubt = u.doubt
      /\ v.press = u.press
  BY <1>4 DEF States
<1> HIDE DEF v
<1>7. /\ w \in States /\ w.last = v.last /\ w.second = v.second /\ w.flash = v.flash
      /\ w.scope = v.scope /\ w.stop = v.stop /\ w.dev = v.dev /\ w.doubt = v.doubt
      /\ w.press = v.press
  BY <1>6 DEF States
<1>8. Request(v) \in {v, w}
  BY DEF Request
<1> HIDE DEF w
<1> DEFINE x == Request(v)
<1>9. /\ x \in States /\ x.last = u.last /\ x.second = u.second /\ x.flash = u.flash
      /\ x.scope = u.scope /\ x.stop = u.stop /\ x.dev = u.dev /\ x.doubt = u.doubt
      /\ x.press = u.press
  BY <1>6, <1>7, <1>8
<1> HIDE DEF x
<1>10. Switched(s, x, p)
  BY <1>4, <1>5, <1>9 DEF Switched, Falls, LeftDown, Covered
<1>11. Calm(x, ResetTrigger(x))
  BY <1>9, ResetTriggerCalm
<1>12. Switched(s, ResetTrigger(x), p)
  BY <1>10, <1>11 DEF Switched, Calm
<1>. QED  BY <1>2, <1>12 DEF x

LEMMA SentTurns ==
  ASSUME NEW s \in States, NEW p, IsProfile(p), Covered(s), StopReady(s, p)
  PROVE  LET t == Sent(s, p) IN
         \/ Calm(s, t) /\ UnderMask(t, p)
         \/ Switched(s, t, p)
<1> DEFINE n == [s EXCEPT !.stop = Fired(p.after)]
           s1 == IF Timed(p) /\ Preparing(s) THEN n ELSE s
           s2 == IF IsOver(s1.stop) THEN Unmask(s1) ELSE s1
<1>1. Sent(s, p) = IF p.switch /\ Keyboard THEN ResetTrigger(CompleteSwitch(s2)) ELSE s2
  BY DEF Sent, If
<1>2. /\ Fired(p.after) \in Stops /\ Fired(p.after).phase = "after"
      /\ Fired(p.after).left = p.after /\ s.fsm \in Triggers
  BY StopsAre DEF IsProfile, Fired, States
<1>3. Calm(s, n) /\ n.dev = s.dev /\ n.doubt = s.doubt /\ n.stop = Fired(p.after)
  BY <1>2, FieldsSet DEF States
<1> HIDE DEF n
<1>4. Calm(s, s1) /\ s1 \in States /\ s1.dev = s.dev /\ s1.doubt = s.doubt
      /\ s1.stop = IF Timed(p) /\ Preparing(s) THEN Fired(p.after) ELSE s.stop
  BY <1>3, CalmSelf DEF Calm
<1> HIDE DEF s1
<1>5. Calm(s1, s2) /\ (~IsOver(s1.stop) => s2 = s1)
  BY <1>4, UnmaskMaybe
<1> HIDE DEF s2
<1>6. Calm(s, s2) /\ s2 \in States
  BY <1>4, <1>5, CalmTwice DEF Calm
<1>7. UnderMask(s2, p)
  <2>1. SUFFICES ASSUME ~Expires, MaskCapable, p.stop # 0, "mask" \notin s2.doubt,
                        ~(Timed(p) /\ p.after = 0)
                 PROVE  s2.dev.mask > 0
    BY DEF UnderMask
  <2>2. Timed(p) \/ Lasts(p)
    BY <2>1 DEF Timed, Lasts, IsProfile
  <2>3. CASE Timed(p)
    <3>1. Preparing(s)
      BY <2>3 DEF StopReady
    <3>2. ~IsOver(s1.stop)
      BY <1>2, <1>4, <2>1, <2>3, <3>1 DEF IsOver
    <3>. QED  BY <1>4, <1>5, <2>1, <3>1, <3>2 DEF Covered, Preparing
  <2>4. CASE ~Timed(p) /\ Lasts(p)
    <3>1. LastingOn(s)
      BY <2>4 DEF StopReady
    <3>2. ~IsOver(s1.stop)
      BY <1>4, <2>4, <3>1 DEF IsOver, LastingOn
    <3>. QED  BY <1>4, <1>5, <2>1, <3>1, <3>2 DEF Covered, LastingOn
  <2>. QED  BY <2>2, <2>3, <2>4
<1>8. CASE p.switch /\ Keyboard
  <2> DEFINE x == ResetTrigger(CompleteSwitch(s2))
  <2>1. Switched(s2, x, p)
    BY <1>6, <1>8, CompleteSwitchTurns
  <2> HIDE DEF x
  <2>2. Switched(s, x, p)
    BY <1>6, <2>1 DEF Switched, Calm
  <2>. QED  BY <1>1, <1>8, <2>2 DEF x
<1>9. CASE ~(p.switch /\ Keyboard)
  BY <1>1, <1>6, <1>7, <1>9
<1>. QED  BY <1>8, <1>9

(* A shot that is sent only when it may be, and under its mask.            *)
Shoots(s, t, p, may) ==
    /\ t \in States /\ t.scope = s.scope /\ t.dev.right = s.dev.right /\ t.press = s.press
    /\ t.last = s.last /\ t.second = s.second /\ t.flash = s.flash /\ t.switch = s.switch
    /\ Covered(s) => Covered(t)
    /\ t.dev.left /\ ~s.dev.left => may
    /\ LeftDown(t) /\ ~LeftDown(s) => UnderMask(t, p)

LEMMA CalmShoots ==
  ASSUME NEW s, NEW t, Calm(s, t), NEW p, NEW may
  PROVE  Shoots(s, t, p, may)
BY DEF Calm, Shoots

LEMMA CalmThenShoots ==
  ASSUME NEW s, NEW t, NEW u, Calm(s, t), NEW p, NEW may,
         Shoots(t, u, p, may) \/ Switched(t, u, p)
  PROVE  Shoots(s, u, p, may) \/ Switched(s, u, p)
<1>1. CASE Shoots(t, u, p, may)
  BY <1>1 DEF Calm, Shoots
<1>2. CASE Switched(t, u, p)
  BY <1>2 DEF Calm, Switched
<1>. QED  BY <1>1, <1>2

LEMMA ShotTurns ==
  ASSUME NEW s \in States, NEW p, IsProfile(p), Covered(s), NEW act
  PROVE  LET t == Shot(s, p, act) IN
         Shoots(s, t, p, "press" \in act) \/ Switched(s, t, p)
<1> DEFINE s1 == IF "release" \in act THEN LeftUp(s) ELSE s
           d == Send(s1, "leftDown")
           t == Shot(s, p, act)
<1>1. t = IF "press" \notin act THEN s1
          ELSE IF ~StopReady(s1, p) THEN Refused(s1)
          ELSE IF ~Works(s1, "leftDown") THEN Refused(d) ELSE Sent(d, p)
  BY DEF Shot, If, CompleteShot
<1> HIDE DEF t
<1>2. Calm(s, s1) /\ s1 \in States /\ Covered(s1)
  BY LeftUpCalm, CalmSelf DEF Calm
<1> HIDE DEF s1
<1>3. /\ d \in States /\ d.scope = s1.scope /\ d.press = s1.press /\ d.last = s1.last
      /\ d.second = s1.second /\ d.flash = s1.flash /\ d.switch = s1.switch
      /\ d.stop = s1.stop /\ d.dev.mask = s1.dev.mask /\ d.dev.right = s1.dev.right
      /\ "mask" \in d.doubt <=> "mask" \in s1.doubt
      /\ "left" \in d.doubt <=> ~Works(s1, "leftDown")
  BY <1>2, ButtonSent DEF Part
<1> HIDE DEF d
<1>4. Covered(d)
  BY <1>2, <1>3 DEF Covered
<1>5. CASE "press" \notin act \/ ~StopReady(s1, p)
  <2>1. Calm(s1, t)
    BY <1>1, <1>2, <1>5, RefusedCalm, CalmSelf
  <2>. QED  BY <1>2, <2>1, CalmTwice, CalmShoots DEF t
<1>6. CASE "press" \in act /\ StopReady(s1, p) /\ ~Works(s1, "leftDown")
  <2>1. t = Refused(d)
    BY <1>1, <1>6
  <2>2. Calm(d, t)
    BY <1>3, <2>1, RefusedCalm
  <2>3. ~LeftDown(d)
    BY <1>3, <1>6 DEF LeftDown
  <2>4. Shoots(s1, t, p, "press" \in act)
    BY <1>3, <1>4, <1>6, <2>2, <2>3 DEF Calm, Shoots
  <2>. QED  BY <1>2, <2>4, CalmThenShoots DEF t
<1>7. CASE "press" \in act /\ StopReady(s1, p) /\ Works(s1, "leftDown")
  <2>1. t = Sent(d, p)
    BY <1>1, <1>7
  <2>2. StopReady(d, p)
    BY <1>3, <1>7 DEF StopReady, Preparing, LastingOn
  <2>3. (Calm(d, t) /\ UnderMask(t, p)) \/ Switched(d, t, p)
    BY <1>3, <1>4, <2>1, <2>2, SentTurns
  <2>4. Shoots(s1, t, p, "press" \in act) \/ Switched(s1, t, p)
    <3>1. CASE Calm(d, t) /\ UnderMask(t, p)
      BY <1>3, <1>4, <1>7, <3>1 DEF Calm, Shoots
    <3>2. CASE Switched(d, t, p)
      BY <1>3, <1>4, <3>2 DEF Switched
    <3>. QED  BY <2>3, <3>1, <3>2
  <2>. QED  BY <1>2, <2>4, CalmThenShoots DEF t
<1>. QED  BY <1>5, <1>6, <1>7

LEMMA PressIsReady ==
  ASSUME NEW f, NEW in, NEW ready \in BOOLEAN, NEW q
  PROVE  "press" \in TickTrigger(f, in, ready, q).act => ready
<1>1. ~ready => TickTrigger(f, in, ready, q)
                  = Does(Reset(f), IF Pressed(f) THEN {"release"} ELSE {})
  BY DEF TickTrigger
<1>. QED  BY <1>1 DEF Does

LEMMA FireTurns ==
  ASSUME NEW s \in States, Covered(s), NEW p, IsProfile(p), NEW hit \in BOOLEAN, NEW zone
  PROVE  LET t == Fire(s, p, hit, zone) IN
         Shoots(s, t, p, Ready(s.scope, Allowed(p), p.scope)) \/ Switched(s, t, p)
<1> DEFINE ready == Ready(s.scope, Allowed(p), p.scope)
           s1 == KeepMasked(s, p, zone)
           q  == [start |-> p.start, interval |-> p.interval, grace |-> p.grace,
                  before |-> Before(p),
                  duration |-> IF p.switch /\ Keyboard THEN Longer(p.duration, MinHold)
                               ELSE p.duration]
           t  == TickTrigger(s1.fsm, hit, ready, q)
           u  == [s1 EXCEPT !.fsm = t.fsm]
           v  == Masked(u, p, t.act)
           w  == Shot(v, p, t.act)
<1>1. Fire(s, p, hit, zone) = w
  BY DEF Fire, Pulls
<1>2. TimesOf(q)
  <2>1. p.duration \in 0..Horizon /\ MinHold \in 0..Horizon
    BY OutputAssumption DEF IsProfile
  <2>2. Longer(p.duration, MinHold) \in 0..Horizon
    BY <2>1, LongerIs
  <2>3. Before(p) \in 0..Horizon /\ {p.start, p.interval, p.grace} \subseteq 0..Horizon
    BY ZeroIsTime DEF Before, IsProfile
  <2>. QED  BY <2>1, <2>2, <2>3 DEF TimesOf
<1>3. ready \in BOOLEAN
  BY DEF Ready
<1>4. Calm(s, s1) /\ s1 \in States
  <2>1. Calm(s, s1)
    BY KeepMaskedCalm
  <2>. QED  BY <2>1 DEF Calm
<1> HIDE DEF s1, q, ready
<1>5. s1.fsm \in Triggers
  BY <1>4 DEF States
<1>6. t.fsm \in Triggers
  BY <1>2, <1>3, <1>5, TickTriggerIs
<1>7. "press" \in t.act => ready
  BY <1>3, PressIsReady
<1> HIDE DEF t
<1>8. Calm(s1, u) /\ u \in States
  BY <1>4, <1>6, FieldsSet, StopsAre DEF Calm
<1> HIDE DEF u
<1>9. Calm(u, v)
  BY <1>8, MaskedCalm
<1> HIDE DEF v
<1>10. Calm(s, v)
  BY <1>4, <1>8, <1>9, CalmTwice
<1>11. v \in States /\ Covered(v)
  BY <1>10 DEF Calm
<1>12. Shoots(v, w, p, "press" \in t.act) \/ Switched(v, w, p)
  BY <1>11, ShotTurns
<1> HIDE DEF w
<1>13. Shoots(v, w, p, ready) \/ Switched(v, w, p)
  BY <1>7, <1>12 DEF Shoots
<1>14. Shoots(s, w, p, ready) \/ Switched(s, w, p)
  BY <1>10, <1>13, CalmThenShoots
<1>. QED  BY <1>1, <1>14 DEF ready

-----------------------------------------------------------------------------
(* What a tick makes of a batch: a scope or a shot only where it may be.   *)
Judged(s, t, p) ==
    /\ t \in States /\ t.last = s.last /\ t.second = s.second /\ t.flash = s.flash
    /\ Covered(t) /\ TapsOnly(t)
    /\ HeldDown(s) => HeldDown(t)
    /\ MayTap(p) /\ TapIsOn(s) => TapIsOn(t) /\ t.press = s.press
    /\ MayTap(p) => t.press \in {s.press, "failed"} \/ TapIsOn(t)
    /\ t.dev.right => s.dev.right \/ (p.enabled /\ ~p.right)
    /\ HeldDown(s) /\ p.scope = 2 /\ Allowed(p) /\ ~p.switch /\ t.dev.left
         => s.dev.left \/ t.dev.right
    /\ LeftDown(t) => LeftDown(s) \/ UnderMask(t, p)

LEMMA TurnedJudged ==
  ASSUME NEW s, Covered(s), NEW t, NEW p, Turned(s, t, p)
  PROVE  Judged(s, t, p)
BY DEF Turned, Judged

LEMMA CalmTurned ==
  ASSUME NEW s, TapsOnly(s), NEW t, NEW p, Calm(s, t)
  PROVE  Turned(s, t, p)
BY DEF Calm, Turned, TapsOnly, HeldDown, TapIsOn

LEMMA CalmJudged ==
  ASSUME NEW s, NEW t, NEW u, NEW p, Calm(s, t), Judged(t, u, p)
  PROVE  Judged(s, u, p)
BY DEF Calm, Judged, HeldDown, TapIsOn

LEMMA ActTurns ==
  ASSUME NEW s \in States, ~Busy(s), Covered(s), TapsOnly(s), NEW p, IsProfile(p), NEW obs
  PROVE  Judged(s, Act(s, p, obs), p)
<1> DEFINE hit   == obs = "zone" /\ p.enabled
           grace == IF p.enabled THEN p.grace ELSE 0
           zone  == ZoneHeld(s.fsm, hit, grace)
           f     == AfterZone(s.fsm, hit, grace)
           s0    == [s EXCEPT !.fsm = f]
           s1    == Scoped(s0, p, zone)
           s2    == IF p.enabled THEN Fire(s1, p, hit, zone) ELSE HoldFire(s1, p)
           t     == Act(s, p, obs)
           may   == Ready(s1.scope, Allowed(p), p.scope)
<1>1. t = IF Busy(s2) /\ LastingOn(s2) THEN Unmask(s2) ELSE s2
  BY DEF Act, If
<1>2. hit \in BOOLEAN /\ grace \in 0..Horizon /\ s.fsm \in Triggers /\ zone \in BOOLEAN
  BY ZeroIsTime DEF States, IsProfile, ZoneHeld, KeepsOn
<1> HIDE DEF hit, grace, zone, t
<1>3. f \in Triggers
  BY <1>2, AfterZoneIs
<1> HIDE DEF f
<1>4. Calm(s, s0) /\ s0 \in States
  BY <1>3, FieldsSet, StopsAre DEF Calm
<1> HIDE DEF s0
<1>5. TapsOnly(s0) /\ Covered(s0) /\ ~Busy(s0)
  BY <1>4 DEF Calm, TapsOnly, Busy
<1>6. Turned(s0, s1, p) /\ s1.switch = s0.switch /\ s1.scope.mode = p.scope
  BY <1>2, <1>4, <1>5, ScopedTurns
<1> HIDE DEF s1
<1>7. s1 \in States /\ Covered(s1) /\ TapsOnly(s1) /\ ~Busy(s1)
  BY <1>5, <1>6 DEF Turned, Busy
<1>8. Shoots(s1, s2, p, may) \/ Switched(s1, s2, p)
  <2>1. CASE p.enabled
    BY <1>2, <1>7, <2>1, FireTurns
  <2>2. CASE ~p.enabled
    BY <1>7, <2>2, HoldFireCalm, CalmShoots
  <2>. QED  BY <2>1, <2>2
<1> HIDE DEF s2, may
<1>9. CASE Shoots(s1, s2, p, may)
  <2>1. t = s2
    BY <1>1, <1>7, <1>9 DEF Shoots, Busy
  <2>2. HeldDown(s0) /\ p.scope = 2 /\ Allowed(p) /\ s2.dev.left => s0.dev.left \/ s2.dev.right
    <3>1. SUFFICES ASSUME HeldDown(s0), p.scope = 2, Allowed(p), s2.dev.left, ~s0.dev.left
                   PROVE  s2.dev.right
      OBVIOUS
    <3>2. ~s1.dev.left /\ HeldDown(s1)
      BY <1>6, <3>1 DEF Turned
    <3>3. s1.scope.engaged
      BY <1>9, <3>1, <3>2 DEF Shoots, may, Ready
    <3>. QED  BY <1>6, <1>9, <3>1, <3>2, <3>3 DEF HeldDown, Shoots
  <2>3. LeftDown(s2) => LeftDown(s0) \/ UnderMask(s2, p)
    BY <1>6, <1>9 DEF Turned, Shoots
  <2>4. Judged(s0, s2, p)
    BY <1>6, <1>7, <1>9, <2>2, <2>3 DEF Turned, Shoots, Judged, TapsOnly, HeldDown, TapIsOn
  <2>. QED  BY <1>4, <2>1, <2>4, CalmJudged DEF t
<1>10. CASE Switched(s1, s2, p)
  <2>1. Judged(s0, s2, p)
    BY <1>6, <1>7, <1>10 DEF Switched, Turned, Judged, TapsOnly, HeldDown, MayTap
  <2>2. Calm(s2, t)
    BY <1>1, <1>10, UnmaskCalm, CalmSelf DEF Switched
  <2>3. ~LeftDown(t)
    BY <1>10, <2>2 DEF Switched, Calm
  <2>4. Judged(s0, t, p)
    BY <1>10, <2>1, <2>2, <2>3
    DEF Switched, Judged, Calm, TapsOnly, HeldDown, MayTap
  <2>. QED  BY <1>4, <2>4, CalmJudged DEF t
<1>. QED  BY <1>8, <1>9, <1>10

LEMMA JudgeTurns ==
  ASSUME NEW s \in States, ~Busy(s), Covered(s), TapsOnly(s), NEW p, IsProfile(p), NEW obs,
         MayTap(p) => obs \notin {"turn", "lost"}
  PROVE  Judged(s, Judge(s, p, obs), p)
<1> DEFINE t == Configure(s, p)
           g == obs \notin {"seen", "zone"}
<1>1. Judge(s, p, obs) = IF obs \in {"turn", "lost"} THEN ReleaseTargetButtons(t, p, obs = "lost")
                         ELSE IF Nothing(t, p, obs) THEN ReleaseTargetButtons(t, p, g)
                         ELSE Act(t, p, obs)
  BY DEF Judge
<1>2. Calm(s, t)
  BY ConfigureCalm
<1> HIDE DEF t
<1>3. t \in States /\ Covered(t) /\ TapsOnly(t) /\ ~Busy(t)
  BY <1>2 DEF Calm, TapsOnly, Busy
<1>4. Nothing(t, p, obs) => (MayTap(p) => g)
  BY DEF Nothing, MayTap
<1>5. ASSUME NEW grace \in BOOLEAN, MayTap(p) => grace
      PROVE  Judged(s, ReleaseTargetButtons(t, p, grace), p)
  BY <1>2, <1>3, <1>5, ReleaseTargetTurns, TurnedJudged, CalmJudged
<1>6. Judged(s, Act(t, p, obs), p)
  BY <1>2, <1>3, ActTurns, CalmJudged
<1>7. g \in BOOLEAN /\ (obs = "lost") \in BOOLEAN
  OBVIOUS
<1> HIDE DEF g
<1>. QED  BY <1>1, <1>4, <1>5, <1>6, <1>7

LEMMA ObservedTurns ==
  ASSUME NEW s \in States, Covered(s), TapsOnly(s), NEW p, IsProfile(p), NEW obs,
         MayTap(p) => obs \notin {"turn", "lost"}
  PROVE  Judged(s, Observed(s, p, obs), p)
<1> DEFINE n == [s EXCEPT !.tapped = FALSE]
           t == IF p.scope = 1 THEN s ELSE n
           u == Observed(s, p, obs)
<1>1. u = IF obs = "old" THEN s
          ELSE IF obs = "late" \/ Busy(t) THEN (IF LastingOn(t) THEN Unmask(t) ELSE t)
          ELSE Judge(t, p, obs)
  BY DEF Observed, If
<1> HIDE DEF u
<1>2. /\ n \in States /\ n.scope = s.scope /\ n.last = s.last /\ n.second = s.second
      /\ n.flash = s.flash /\ n.switch = s.switch /\ n.dev = s.dev /\ n.doubt = s.doubt
      /\ n.stop = s.stop /\ n.press = s.press
  BY DEF States
<1> HIDE DEF n
<1>3. /\ t \in States /\ t.scope = s.scope /\ t.last = s.last /\ t.second = s.second
      /\ t.flash = s.flash /\ t.switch = s.switch /\ t.dev = s.dev /\ t.doubt = s.doubt
      /\ t.stop = s.stop /\ t.press = s.press
  BY <1>2
<1> HIDE DEF t
<1>4. Covered(t) /\ TapsOnly(t) /\ (HeldDown(t) <=> HeldDown(s)) /\ (LeftDown(t) <=> LeftDown(s))
  BY <1>3 DEF Covered, TapsOnly, HeldDown, LeftDown
<1>5. ASSUME NEW v, Judged(t, v, p)
      PROVE  Judged(s, v, p)
  BY <1>3, <1>4, <1>5 DEF Judged, MayTap, TapIsOn
<1>6. ASSUME NEW v, Calm(t, v)
      PROVE  Judged(t, v, p)
  BY <1>4, <1>6, CalmTurned, TurnedJudged
<1>7. CASE obs = "old"
  <2>1. Judged(s, s, p)
    BY CalmSelf, CalmTurned, TurnedJudged
  <2>. QED  BY <1>1, <1>7, <2>1 DEF u
<1>8. CASE obs # "old" /\ (obs = "late" \/ Busy(t))
  <2>1. Calm(t, u)
    BY <1>1, <1>3, <1>8, UnmaskCalm, CalmSelf
  <2>. QED  BY <1>5, <1>6, <2>1 DEF u
<1>9. CASE obs \notin {"old", "late"} /\ ~Busy(t)
  <2>1. u = Judge(t, p, obs)
    BY <1>1, <1>9
  <2>2. Judged(t, Judge(t, p, obs), p)
    BY <1>3, <1>4, <1>9, JudgeTurns
  <2>. QED  BY <1>5, <2>1, <2>2 DEF u
<1>. QED  BY <1>7, <1>8, <1>9

-----------------------------------------------------------------------------
(* The hotkey of a tick.                                                   *)
LEMMA DeactivateTurns ==
  ASSUME NEW s \in States
  PROVE  LET t == DeactivateHotkey(s) IN
         t = s \/ Gone([s EXCEPT !.last = 0, !.tapped = FALSE, !.second = FALSE], t)
<1> DEFINE n == [s EXCEPT !.last = 0, !.tapped = FALSE, !.second = FALSE]
<1>1. n \in States
  BY DEF States
<1>2. DeactivateHotkey(s) = IF s.last = 0 THEN s ELSE ReleaseHeldButtons(n)
  BY DEF DeactivateHotkey
<1> HIDE DEF n
<1>3. Gone(n, ReleaseHeldButtons(n))
  BY <1>1, ReleaseHeldGone
<1>. QED  BY <1>1, <1>2, <1>3 DEF Gone, Falls, n

(* What holds of the loop between two calls, for any tap.                  *)
Readied(s) == s \in States /\ Covered(s) /\ TapsOnly(s)

LEMMA GoneReadied ==
  ASSUME NEW s \in States, Covered(s), NEW t, Gone(s, t)
  PROVE  Readied(t) /\ HeldDown(t)
BY DEF Gone, Falls, Readied, TapsOnly, HeldDown

(* What is put down about the hotkey changes nothing else.                 *)
Noted(s, t) ==
    /\ t \in States /\ t.scope = s.scope /\ t.stop = s.stop /\ t.dev = s.dev /\ t.doubt = s.doubt

LEMMA NotedReadied ==
  ASSUME NEW s, Readied(s), NEW t, Noted(s, t)
  PROVE  /\ Readied(t) /\ (HeldDown(t) <=> HeldDown(s)) /\ (LeftDown(t) <=> LeftDown(s))
         /\ t.dev = s.dev
BY DEF Readied, Noted, Covered, TapsOnly, HeldDown, LeftDown

(* A step that changes the notes and may let all go.                       *)
Took(s, t) ==
    /\ Readied(t)
    /\ HeldDown(s) => HeldDown(t)
    /\ t.dev.left => s.dev.left
    /\ t.dev.right => s.dev.right
    /\ LeftDown(t) => LeftDown(s)
    /\ t.press = s.press

LEMMA NotedTook ==
  ASSUME NEW s, Readied(s), NEW t, Noted(s, t), t.press = s.press
  PROVE  Took(s, t)
BY NotedReadied DEF Took, Noted

LEMMA GoneTook ==
  ASSUME NEW s, Readied(s), NEW t, Gone(s, t)
  PROVE  Took(s, t)
<1>1. Readied(t) /\ HeldDown(t)
  BY GoneReadied DEF Readied
<1>. QED  BY <1>1 DEF Took, Gone, Falls

LEMMA TookTwice ==
  ASSUME NEW s, NEW t, NEW u, Took(s, t), Took(t, u)
  PROVE  Took(s, u)
BY DEF Took

LEMMA ReleaseTook ==
  ASSUME NEW s, Readied(s)
  PROVE  LET t == ReleaseHeldButtons(s) IN
         Took(s, t) /\ t.last = s.last /\ t.second = s.second /\ t.flash = s.flash
         /\ t.press = s.press /\ t \in States
<1>1. Gone(s, ReleaseHeldButtons(s))
  BY ReleaseHeldGone DEF Readied
<1>2. Took(s, ReleaseHeldButtons(s))
  BY <1>1, GoneTook
<1>. QED  BY <1>1, <1>2 DEF Gone, Falls

LEMMA TakeProfileTakes ==
  ASSUME NEW s, Readied(s), NEW p, IsProfile(p)
  PROVE  LET t == TakeProfile(s, p) IN
         /\ Took(s, t) /\ t.last = p.key /\ t.second = p.second /\ t.flash = FlashMode(p)
         /\ s.second = p.second /\ s.last = p.key /\ s.flash = FlashMode(p)
               => t.scope = s.scope
<1>1. p.key \in Nat /\ p.second \in BOOLEAN /\ FlashMode(p) \in 0..2
  BY DEF IsProfile, FlashMode
<1> DEFINE ra == ReleaseHeldButtons(s)
           na == [ra EXCEPT !.tapped = FALSE, !.second = p.second]
           a  == TakeSecond(s, p)
           rb == ReleaseHeldButtons(a)
           nb == [rb EXCEPT !.flash = FlashMode(p)]
           b  == TakeMode(a, p)
           c  == [b EXCEPT !.last = p.key]
           nc == [c EXCEPT !.tapped = FALSE]
           t  == TakeKey(b, p)
<1>2. /\ TakeProfile(s, p) = t
      /\ a = IF s.second = p.second THEN s ELSE na
      /\ b = IF a.flash = FlashMode(p) THEN a ELSE nb
      /\ t = IF b.last \in {0, p.key} THEN c ELSE ReleaseHeldButtons(nc)
  BY DEF TakeProfile, TakeSecond, TakeMode, TakeKey
<1> HIDE DEF a, b, t
<1>3. s \in States /\ Noted(s, s) /\ Took(s, s)
  <2>1. s \in States /\ Noted(s, s)
    BY DEF Readied, Noted
  <2>. QED  BY <2>1, NotedTook
<1>4. /\ Took(s, a) /\ a \in States /\ a.second = p.second /\ a.last = s.last /\ a.flash = s.flash
      /\ s.second = p.second => a = s
  <2>1. Took(s, ra) /\ ra.last = s.last /\ ra.flash = s.flash /\ ra \in States
    BY ReleaseTook
  <2> HIDE DEF ra
  <2>2. Noted(ra, na) /\ na.press = ra.press /\ na.second = p.second /\ na.last = ra.last
        /\ na.flash = ra.flash /\ na \in States
    BY <1>1, <2>1 DEF States, Noted
  <2>3. Took(s, na)
    <3>1. Readied(ra)
      BY <2>1 DEF Took
    <3>2. Took(ra, na)
      BY <2>2, <3>1, NotedTook
    <3>. QED  BY <2>1, <3>2, TookTwice
  <2> HIDE DEF na
  <2>. QED  BY <1>2, <1>3, <2>1, <2>2, <2>3
<1> HIDE DEF na, ra
<1>5. /\ Took(a, b) /\ b \in States /\ b.second = a.second /\ b.last = a.last
      /\ b.flash = FlashMode(p)
      /\ a.flash = FlashMode(p) => b = a
  <2>1. Readied(a) /\ Took(a, a)
    BY <1>4, NotedTook DEF Took, Noted
  <2>2. Took(a, rb) /\ rb.last = a.last /\ rb.second = a.second /\ rb \in States
    BY <2>1, ReleaseTook
  <2> HIDE DEF rb
  <2>3. Noted(rb, nb) /\ nb.press = rb.press /\ nb.second = rb.second /\ nb.last = rb.last /\ nb.flash = FlashMode(p)
        /\ nb \in States
    BY <1>1, <2>2 DEF States, Noted
  <2>4. Took(a, nb)
    <3>1. Readied(rb)
      BY <2>2 DEF Took
    <3>2. Took(rb, nb)
      BY <2>3, <3>1, NotedTook
    <3>. QED  BY <2>2, <3>2, TookTwice
  <2> HIDE DEF nb
  <2>. QED  BY <1>2, <1>4, <2>1, <2>2, <2>3, <2>4
<1> HIDE DEF nb, rb
<1>6. /\ Took(b, t) /\ t.second = b.second /\ t.last = p.key /\ t.flash = b.flash
      /\ b.last = p.key => t.scope = b.scope
  <2>1. Readied(b)
    BY <1>5 DEF Took
  <2>2. Noted(b, c) /\ c.second = b.second /\ c.last = p.key /\ c.flash = b.flash
        /\ c.scope = b.scope /\ c.press = b.press /\ c \in States
    BY <1>1, <1>5 DEF States, Noted
  <2>3. Took(b, c) /\ Readied(c)
    <3>1. Took(b, c)
      BY <2>1, <2>2, NotedTook
    <3>. QED  BY <3>1 DEF Took
  <2> HIDE DEF c
  <2>4. Noted(c, nc) /\ nc.second = c.second /\ nc.last = c.last /\ nc.flash = c.flash
        /\ nc.press = c.press
    BY <2>2 DEF States, Noted
  <2>5. Took(b, nc) /\ Readied(nc)
    BY <2>3, <2>4, NotedTook, TookTwice DEF Took
  <2> HIDE DEF nc
  <2> DEFINE r == ReleaseHeldButtons(nc)
  <2>6. Took(nc, r) /\ r.last = nc.last /\ r.second = nc.second /\ r.flash = nc.flash
    BY <2>5, ReleaseTook
  <2> HIDE DEF r
  <2>7. t = IF b.last \in {0, p.key} THEN c ELSE r
    BY <1>2 DEF r
  <2>8. Took(b, r)
    BY <2>5, <2>6, TookTwice
  <2>. QED  BY <2>2, <2>3, <2>4, <2>6, <2>7, <2>8
<1> HIDE DEF c, nc
<1>7. Took(s, t)
  BY <1>4, <1>5, <1>6, TookTwice
<1>. QED  BY <1>2, <1>4, <1>5, <1>6, <1>7


(* A whole tick.  The hotkey p is held, or none.                           *)
Ticks(s, t, p) ==
    /\ Readied(t)
    /\ HeldDown(s) => HeldDown(t)
    /\ p = NoHotkey => /\ t.dev.left => s.dev.left
                       /\ t.dev.right => s.dev.right
                       /\ LeftDown(t) => LeftDown(s)
    /\ p # NoHotkey =>
         /\ HeldDown(s) /\ p.scope = 2 /\ Allowed(p) /\ ~p.switch /\ t.dev.left
              => s.dev.left \/ t.dev.right
         /\ LeftDown(t) => LeftDown(s) \/ UnderMask(t, p)
         /\ t.dev.right => s.dev.right \/ (p.enabled /\ ~p.right)

LEMMA TookTicks ==
  ASSUME NEW s, NEW t, Took(s, t), NEW p
  PROVE  Ticks(s, t, p)
BY DEF Took, Ticks

LEMMA DeactivateTook ==
  ASSUME NEW s, Readied(s)
  PROVE  Took(s, DeactivateHotkey(s))
<1> DEFINE n == [s EXCEPT !.last = 0, !.tapped = FALSE, !.second = FALSE]
           t == DeactivateHotkey(s)
<1>1. s \in States
  BY DEF Readied
<1>2. t = s \/ Gone(n, t)
  BY <1>1, DeactivateTurns
<1> HIDE DEF t
<1>3. Noted(s, n) /\ Noted(s, s) /\ n.press = s.press
  BY <1>1 DEF States, Noted
<1>4. Took(s, n) /\ Took(s, s)
  BY <1>3, NotedTook
<1>5. Readied(n)
  BY <1>4 DEF Took
<1> HIDE DEF n
<1>6. Took(s, t)
  BY <1>2, <1>4, <1>5, GoneTook, TookTwice
<1>. QED  BY <1>6 DEF t

LEMMA CalmTook ==
  ASSUME NEW s, Readied(s), NEW t, Calm(s, t)
  PROVE  Took(s, t)
BY DEF Took, Calm, Readied, TapsOnly, HeldDown

LEMMA AfterShotCalm ==
  ASSUME NEW s, Readied(s)
  PROVE  Calm(s, AfterShot(s)) /\ Took(s, AfterShot(s)) /\ Readied(AfterShot(s))
<1>1. s \in States
  BY DEF Readied
<1>2. AfterShot(s) \in {s, Unmask(s)}
  BY DEF AfterShot, If
<1>3. Calm(s, AfterShot(s))
  BY <1>1, <1>2, UnmaskMaybe
<1>4. Took(s, AfterShot(s))
  BY <1>3, CalmTook
<1>. QED  BY <1>3, <1>4 DEF Took

LEMMA TickedTurns ==
  ASSUME NEW s, Readied(s), NEW p \in Profiles \cup {NoHotkey}, NEW obs,
         p # NoHotkey /\ MayTap(p) => obs \notin {"turn", "lost"}
  PROVE  Ticks(s, Ticked(s, p, obs), p)
<1> DEFINE t == AfterShot(s)
           u == TakeProfile(t, p)
           d == DeactivateHotkey(t)
           w == Observed(u, p, obs)
<1>1. Ticked(s, p, obs) = IF p = NoHotkey THEN d ELSE IF ~(p.aims \/ p.enabled) THEN d ELSE w
  BY DEF Ticked
<1>2. Took(s, t) /\ Readied(t)
  BY AfterShotCalm
<1> HIDE DEF t
<1>3. Took(s, d)
  BY <1>2, DeactivateTook, TookTwice
<1> HIDE DEF d
<1>4. CASE p = NoHotkey \/ ~(p.aims \/ p.enabled)
  BY <1>1, <1>3, <1>4, TookTicks
<1>5. CASE p # NoHotkey /\ (p.aims \/ p.enabled)
  <2>1. IsProfile(p)
    BY <1>5, OutputAssumption
  <2>2. Took(t, u)
    BY <1>2, <2>1, TakeProfileTakes
  <2> HIDE DEF u
  <2>3. Took(s, u)
    BY <1>2, <2>2, TookTwice
  <2>4. u \in States /\ Covered(u) /\ TapsOnly(u)
    BY <2>2 DEF Took, Readied
  <2>5. Judged(u, w, p)
    BY <1>5, <2>1, <2>4, ObservedTurns
  <2> HIDE DEF w
  <2>6. Ticks(s, w, p)
    BY <1>5, <2>3, <2>5 DEF Took, Judged, Ticks, Readied
  <2>. QED  BY <1>1, <1>5, <2>6
<1>. QED  BY <1>4, <1>5

-----------------------------------------------------------------------------
(* The other steps press nothing.                                          *)
Eases(s, t) ==
    /\ Readied(t)
    /\ t.dev.left => s.dev.left
    /\ t.dev.right => s.dev.right
    /\ LeftDown(t) => LeftDown(s)

LEMMA EasesTwice ==
  ASSUME NEW s, NEW t, NEW u, Eases(s, t), Eases(t, u)
  PROVE  Eases(s, u)
BY DEF Eases

LEMMA NotedEases ==
  ASSUME NEW s, Readied(s), NEW t, Noted(s, t)
  PROVE  Eases(s, t)
BY NotedReadied DEF Eases

(* Commands of which none is to fail, or one kind.                         *)
LEMMA FaultNoted ==
  ASSUME NEW s \in States, NEW fault \in Faults, NEW took \in BOOLEAN
  PROVE  LET t == Under(s, fault, took) IN
         /\ Noted(s, t) /\ t.press = s.press /\ t.last = s.last /\ t.second = s.second
         /\ t.flash = s.flash
BY DEF Under, States, Noted

LEMMA NoFaultNoted ==
  ASSUME NEW s \in States
  PROVE  LET t == NoFault(s) IN
         Noted(s, t) /\ t.last = s.last /\ t.second = s.second /\ t.flash = s.flash
<1>1. "none" \in Faults
  BY DEF Faults
<1>. QED  BY <1>1 DEF NoFault, States, Noted

(* The mask is lifted and its stop forgotten.                              *)
LEMMA MaskDropped ==
  ASSUME NEW s \in States
  PROVE  LET t == If(Active(s), s, LAMBDA x : Send(x, "unmask")) IN
         /\ t \in States /\ t.scope = s.scope /\ t.press = s.press /\ t.last = s.last
         /\ t.second = s.second /\ t.flash = s.flash
         /\ t.dev.left = s.dev.left /\ t.dev.right = s.dev.right
         /\ LeftDown(t) <=> LeftDown(s)
<1> DEFINE u == Send(s, "unmask")
           t == If(Active(s), s, LAMBDA x : Send(x, "unmask"))
<1>1. t = IF Active(s) THEN u ELSE s
  BY DEF If
<1>2. /\ u \in States /\ u.scope = s.scope /\ u.last = s.last
      /\ u.dev.left = s.dev.left /\ u.dev.right = s.dev.right
      /\ u.doubt \ {"mask"} = s.doubt \ {"mask"}
  BY SendMaskIs
<1>3. u.press = s.press /\ u.second = s.second /\ u.flash = s.flash
  BY DEF Send, Press, States
<1> HIDE DEF u, t
<1>4. LeftDown(u) <=> LeftDown(s)
  BY <1>2 DEF LeftDown
<1>. QED  BY <1>1, <1>2, <1>3, <1>4 DEF t

LEMMA GivenEases ==
  ASSUME NEW s, Readied(s)
  PROVE  LET t == Given(s) IN Eases(s, t) /\ ~t.scope.engaged
<1> DEFINE r == ResetTrigger(s)
           l == IF Pressed(s.fsm) THEN LeftUp(r) ELSE r
           s1 == LetGo(l)
           u == If(Active(s1), s1, LAMBDA t : Send(t, "unmask"))
           v == [u EXCEPT !.stop = NoStop, !.tapped = FALSE]
<1>1. Given(s) = v
  <2>1. l = If(Pressed(s.fsm), ResetTrigger(s), LeftUp)
    BY DEF If
  <2> HIDE DEF l
  <2>. QED  BY <2>1 DEF Given
<1>2. s \in States /\ Covered(s)
  BY DEF Readied
<1>3. Calm(s, r) /\ r \in States
  BY <1>2, ResetTriggerCalm DEF Calm
<1> HIDE DEF r
<1>4. Calm(s, l) /\ l \in States
  <2>1. Calm(r, LeftUp(r)) /\ Calm(r, r)
    BY <1>3, LeftUpCalm, CalmSelf
  <2>. QED  BY <1>3, <2>1, CalmTwice DEF Calm
<1> HIDE DEF l
<1>5. Gone(l, s1) /\ Falls(s, l)
  BY <1>4, LetGoGone, CalmFalls
<1> HIDE DEF s1
<1>6. s1 \in States /\ ~s1.scope.engaged /\ ~s1.scope.pending /\ Falls(s, s1)
  BY <1>5, FallsTwice DEF Gone, Falls
<1>7. /\ u \in States /\ u.scope = s1.scope /\ u.dev.left = s1.dev.left
      /\ u.dev.right = s1.dev.right /\ (LeftDown(u) <=> LeftDown(s1))
  BY <1>6, MaskDropped
<1> HIDE DEF u
<1>8. /\ v \in States /\ v.scope = u.scope /\ v.stop = NoStop /\ v.dev = u.dev
      /\ v.doubt = u.doubt
  BY <1>7, StopsAre DEF States
<1> HIDE DEF v
<1>9. Readied(v)
  BY <1>6, <1>7, <1>8 DEF Readied, Covered, TapsOnly, NoStop
<1>10. Eases(s, v)
  BY <1>6, <1>7, <1>8, <1>9 DEF Eases, Falls, LeftDown
<1>. QED  BY <1>1, <1>6, <1>7, <1>8, <1>10

LEMMA FreedEases ==
  ASSUME NEW s, Readied(s)
  PROVE  LET t == Freed(s) IN
         /\ Eases(s, t) /\ t.scope = s.scope /\ t.press = s.press /\ t.last = s.last
         /\ t.second = s.second /\ t.flash = s.flash
<1> DEFINE m == If(Active(s), s, LAMBDA t : Send(t, "unmask"))
           l == LeftUp(m)
           r == RightUp(l)
           v == [r EXCEPT !.switch = 0, !.stop = NoStop]
<1>1. Freed(s) = v
  BY DEF Freed
<1>2. /\ m \in States /\ m.scope = s.scope /\ m.press = s.press /\ m.last = s.last
      /\ m.second = s.second /\ m.flash = s.flash
      /\ m.dev.left = s.dev.left /\ m.dev.right = s.dev.right
      /\ LeftDown(m) <=> LeftDown(s)
  BY MaskDropped DEF Readied
<1> HIDE DEF m
<1>3. Calm(m, l) /\ l \in States
  BY <1>2, LeftUpCalm DEF Calm
<1> HIDE DEF l
<1>4. Falls(l, r) /\ r.scope = l.scope /\ r \in States
  BY <1>3, RightUpFalls DEF Falls
<1> HIDE DEF r
<1>5. /\ v \in States /\ v.scope = r.scope /\ v.stop = NoStop /\ v.dev = r.dev
      /\ v.doubt = r.doubt /\ v.press = r.press /\ v.last = r.last /\ v.second = r.second
      /\ v.flash = r.flash
  <2>1. 0 \in 0..5 /\ NoStop \in Stops
    BY StopsAre
  <2>. QED  BY <1>4, <2>1 DEF States
<1> HIDE DEF v
<1>7. /\ v.scope = s.scope /\ v.press = s.press /\ v.last = s.last
      /\ v.second = s.second /\ v.flash = s.flash
      /\ v.dev.left => s.dev.left
      /\ v.dev.right => s.dev.right
      /\ LeftDown(v) => LeftDown(s)
  BY <1>2, <1>3, <1>4, <1>5 DEF Calm, Falls, LeftDown
<1>8. Readied(v)
  BY <1>5, <1>7 DEF Readied, Covered, TapsOnly, NoStop
<1>9. Eases(s, v)
  BY <1>7, <1>8 DEF Eases
<1>. QED  BY <1>1, <1>7, <1>9

LEMMA PassedEases ==
  ASSUME NEW s, Readied(s)
  PROVE  LET t == Passed(s) IN
         /\ Eases(s, t) /\ t.press = s.press /\ t.last = s.last /\ t.second = s.second
         /\ t.flash = s.flash /\ t.scope.engaged = s.scope.engaged /\ t.scope.mode = s.scope.mode
         /\ t.dev.right = s.dev.right
<1> DEFINE f == [s.fsm EXCEPT !.due = Less(s.fsm.due, 1), !.lost = Since(s.fsm.lost, 1)]
           x == [s.scope EXCEPT !.tap = Less(s.scope.tap, 1)]
           y == [s.stop EXCEPT !.left = Less(s.stop.left, 1)]
           m == IF Expires THEN Less(s.dev.mask, 1) ELSE s.dev.mask
           d == [s.dev EXCEPT !.mask = m]
           t == [s EXCEPT !.fsm = f, !.scope = x, !.stop = y, !.dev = d]
<1>1. s \in States
  BY DEF Readied
<1>2. Passed(s) = t
  BY <1>1 DEF Passed, States
<1>3. f \in Triggers
  <2>1. s.fsm \in Triggers /\ s.fsm.due \in 0..Horizon /\ s.fsm.lost \in {Never} \cup 0..Horizon
    BY <1>1 DEF States, Triggers
  <2>2. Less(s.fsm.due, 1) \in 0..Horizon
    BY <2>1, LessIs, PartsAssumption
  <2>3. Since(s.fsm.lost, 1) \in {Never} \cup 0..Horizon
    BY <2>1, SinceIs
  <2>. QED  BY <2>1, <2>2, <2>3 DEF Triggers
<1>4. x \in Scopes /\ x.engaged = s.scope.engaged /\ x.pending = s.scope.pending
      /\ x.mode = s.scope.mode
  <2>1. s.scope \in Scopes /\ s.scope.tap \in 0..Horizon
    BY <1>1 DEF States, Scopes
  <2>2. Less(s.scope.tap, 1) \in 0..Horizon
    BY <2>1, LessIs, PartsAssumption
  <2>. QED  BY <2>1, <2>2 DEF Scopes
<1>5. y \in Stops /\ y.phase = s.stop.phase
  <2>1. s.stop \in Stops /\ s.stop.left \in 0..Horizon
    BY <1>1 DEF States, Stops
  <2>2. Less(s.stop.left, 1) \in 0..Horizon
    BY <2>1, LessIs, PartsAssumption
  <2>. QED  BY <2>1, <2>2 DEF Stops
<1>6. m \in 0..MaskSpan /\ (~Expires => m = s.dev.mask)
  <2>1. s.dev.mask \in 0..MaskSpan /\ MaskSpan \in Nat
    BY <1>1, OutputAssumption DEF States
  <2>. QED  BY <2>1, LessIs
<1>7. /\ d \in [left : BOOLEAN, right : BOOLEAN, mask : 0..MaskSpan]
      /\ d.left = s.dev.left /\ d.right = s.dev.right /\ d.mask = m
  <2>1. s.dev \in [left : BOOLEAN, right : BOOLEAN, mask : 0..MaskSpan]
    BY <1>1 DEF States
  <2> HIDE DEF m
  <2>. QED  BY <1>6, <2>1
<1> HIDE DEF f, x, y, d, m
<1>8. /\ t \in States /\ t.scope = x /\ t.stop = y /\ t.dev = d /\ t.doubt = s.doubt
      /\ t.last = s.last /\ t.second = s.second /\ t.flash = s.flash /\ t.press = s.press
  BY <1>1, <1>3, <1>4, <1>5, <1>7 DEF States
<1> HIDE DEF t
<1>9. Readied(t)
  BY <1>4, <1>5, <1>6, <1>7, <1>8 DEF Readied, Covered, TapsOnly
<1>10. Eases(s, t)
  BY <1>7, <1>8, <1>9 DEF Eases, LeftDown
<1>. QED  BY <1>2, <1>4, <1>7, <1>8, <1>10

-----------------------------------------------------------------------------
(* The strengthening that makes a shot ready is inductive.                 *)
ReadyInv == Readied(loop) /\ (~aux.renewed => HeldDown(loop))

(* What the program remembers of an open scope.                            *)
Remembers(s, t) ==
    /\ t.scope.engaged = s.scope.engaged /\ t.scope.mode = s.scope.mode
    /\ t.last = s.last /\ t.second = s.second /\ t.flash = s.flash

(* No button is pressed, and an open scope is forgotten only where the     *)
(* history says so.                                                        *)
Quietly ==
    /\ Eases(loop, loop')
    /\ aux'.press = "none" \/ UNCHANGED vars
    /\ aux'.by = aux.by
    /\ aux'.game = "open" => aux.game = "open" /\ Remembers(loop, loop')

LEMMA DuringReadied ==
  ASSUME ReadyInv, NEW fault \in Faults, NEW took \in BOOLEAN
  PROVE  LET s == During(fault, took) IN
         /\ Readied(s) /\ Eases(loop, s) /\ s.scope = loop.scope /\ s.press = loop.press
         /\ s.last = loop.last /\ s.second = loop.second /\ s.flash = loop.flash
         /\ s.dev = loop.dev /\ s.doubt = loop.doubt
<1>1. During(fault, took) = Under(loop, fault, took)
  BY DEF During, Under
<1> DEFINE s == Under(loop, fault, took)
<1>2. /\ Noted(loop, s) /\ s.press = loop.press /\ s.last = loop.last
      /\ s.second = loop.second /\ s.flash = loop.flash
  BY FaultNoted DEF ReadyInv, Readied
<1> HIDE DEF s
<1>3. Eases(loop, s)
  BY <1>2, NotedEases DEF ReadyInv
<1>. QED  BY <1>1, <1>2, <1>3 DEF Noted, Eases, s

LEMMA NoFaultReadied ==
  ASSUME NEW t, Readied(t)
  PROVE  LET u == NoFault(t) IN
         /\ Readied(u) /\ Eases(t, u) /\ u.scope = t.scope
         /\ u.last = t.last /\ u.second = t.second /\ u.flash = t.flash
         /\ u.dev = t.dev /\ u.doubt = t.doubt
<1> DEFINE u == NoFault(t)
<1>1. /\ Noted(t, u) /\ u.last = t.last
      /\ u.second = t.second /\ u.flash = t.flash
  BY NoFaultNoted DEF Readied
<1> HIDE DEF u
<1>2. Eases(t, u)
  BY <1>1, NotedEases
<1>. QED  BY <1>1, <1>2 DEF Noted, Eases, u

LEMMA QuietActions ==
  ASSUME IInv, ReadyInv,
         ChangeHotkey \/ Pass \/ SwitchKey \/ SwitchKeyFails \/ FinishMacroControl \/ Stall
         \/ UNCHANGED vars
  PROVE  ReadyInv' /\ Quietly
<1>1. loop \in States /\ Readied(loop) /\ aux.renewed \in BOOLEAN
      /\ (~aux.renewed => HeldDown(loop))
  BY DEF ReadyInv, Readied, IInv, WorldOK, Histories
<1>2. /\ aux'.renewed = aux.renewed /\ aux'.by = aux.by /\ aux'.game = aux.game
      /\ aux'.press = "none" \/ UNCHANGED vars
  BY DEF ChangeHotkey, Pass, SwitchKey, SwitchKeyFails, FinishMacroControl, Stall, Did, vars,
         IInv, WorldOK, Histories
<1>3. ASSUME Noted(loop, loop'), loop'.last = loop.last,
             loop'.second = loop.second, loop'.flash = loop.flash
      PROVE  ReadyInv' /\ Quietly
  BY <1>1, <1>2, <1>3, NotedReadied, NotedEases DEF ReadyInv, Quietly, Remembers, Noted
<1>4. CASE loop' = loop
  BY <1>1, <1>3, <1>4 DEF Noted
<1>5. CASE SwitchKey \/ SwitchKeyFails
  <2>1. loop.switch \in 0..5
    BY <1>1 DEF States
  <2>2. PICK n \in 0..5 : loop' = [loop EXCEPT !.switch = n]
    BY <1>5, <2>1 DEF SwitchKey, SwitchKeyFails, Busy
  <2>. QED  BY <1>1, <1>3, <2>2 DEF States, Noted
<1>6. CASE Pass
  <2>1. loop' = Passed(loop)
    BY <1>6 DEF Pass, Passed
  <2>2. /\ Eases(loop, loop') /\ loop'.last = loop.last
        /\ loop'.second = loop.second /\ loop'.flash = loop.flash
        /\ loop'.scope.engaged = loop.scope.engaged /\ loop'.scope.mode = loop.scope.mode
        /\ loop'.dev.right = loop.dev.right
    BY <1>1, <2>1, PassedEases
  <2>. QED  BY <1>1, <1>2, <2>2 DEF ReadyInv, Quietly, Remembers, Eases, HeldDown
<1>. QED  BY <1>4, <1>5, <1>6 DEF ChangeHotkey, FinishMacroControl, Stall, vars

LEMMA MacroQuietly ==
  ASSUME IInv, ReadyInv, NEW fault \in Faults, NEW took \in BOOLEAN, PrepareForMacro(fault, took)
  PROVE  ReadyInv' /\ Quietly
<1> DEFINE s == During(fault, took)
           t == Given(s)
<1>1. Readied(s) /\ Eases(loop, s)
  BY DuringReadied
<1>2. loop' = NoFault(t)
  BY DEF PrepareForMacro
<1> HIDE DEF s
<1>3. Eases(s, t) /\ ~t.scope.engaged
  BY <1>1, GivenEases
<1> HIDE DEF t
<1>4. Readied(loop') /\ Eases(t, loop') /\ loop'.scope = t.scope
  BY <1>2, <1>3, NoFaultReadied DEF Eases
<1>5. Eases(loop, loop')
  BY <1>1, <1>3, <1>4, EasesTwice
<1>6. aux \in Histories
  BY DEF IInv, WorldOK
<1>7. aux' = [aux EXCEPT !.did = "macro", !.press = "none", !.game = LosesTrack("macro")]
  BY DEF PrepareForMacro
<1>8. aux'.press = "none" /\ aux'.by = aux.by /\ aux'.game # "open"
  BY <1>6, <1>7, LosesTrackIs DEF Histories
<1>. QED  BY <1>3, <1>4, <1>5, <1>8 DEF ReadyInv, Quietly, HeldDown

LEMMA ResetMouseQuietly ==
  ASSUME IInv, ReadyInv, NEW fault \in Faults, NEW took \in BOOLEAN, ResetMouse(fault, took)
  PROVE  ReadyInv' /\ Quietly
<1> DEFINE s == During(fault, took)
           t == Freed(s)
<1>1. /\ Readied(s) /\ Eases(loop, s) /\ s.scope = loop.scope /\ s.press = loop.press
      /\ s.last = loop.last /\ s.second = loop.second /\ s.flash = loop.flash
  BY DuringReadied
<1>2. loop' = NoFault(t)
  BY DEF ResetMouse
<1> HIDE DEF s
<1>3. /\ Eases(s, t) /\ t.scope = s.scope /\ t.press = s.press /\ t.last = s.last
      /\ t.second = s.second /\ t.flash = s.flash
  BY <1>1, FreedEases
<1> HIDE DEF t
<1>4. /\ Readied(loop') /\ Eases(t, loop') /\ loop'.scope = t.scope
      /\ loop'.last = t.last /\ loop'.second = t.second /\ loop'.flash = t.flash
  BY <1>2, <1>3, NoFaultReadied DEF Eases
<1>5. Eases(loop, loop')
  BY <1>1, <1>3, <1>4, EasesTwice
<1>6. /\ aux'.renewed = loop'.scope.engaged
      /\ aux'.press = "none" /\ aux'.by = aux.by /\ aux'.game = aux.game
  BY DEF ResetMouse, IInv, WorldOK, Histories
<1>. QED  BY <1>1, <1>3, <1>4, <1>5, <1>6 DEF ReadyInv, Quietly, Remembers, HeldDown

LEMMA ResetSessionQuietly ==
  ASSUME IInv, ReadyInv, NEW fault \in Faults, NEW took \in BOOLEAN, ResetSession(fault, took)
  PROVE  ReadyInv' /\ Quietly
<1> DEFINE s == During(fault, took)
           t == Freed(s)
           n == NoFault(t)
           u == [n EXCEPT !.fsm = Reset(n.fsm), !.scope = ForceRelease(n.scope).scope,
                          !.flash = 0, !.last = 0, !.second = FALSE, !.tapped = FALSE]
<1>1. Readied(s) /\ Eases(loop, s)
  BY DuringReadied
<1>2. loop' = u
  BY DEF ResetSession
<1> HIDE DEF s
<1>3. Eases(s, t)
  BY <1>1, FreedEases
<1> HIDE DEF t
<1>4. Readied(n) /\ Eases(t, n)
  BY <1>3, NoFaultReadied DEF Eases
<1> HIDE DEF n
<1>5. Reset(n.fsm) \in Triggers /\ n \in States
  BY <1>4, ResetIs DEF States, Readied
<1>6. /\ ForceRelease(n.scope).scope \in Scopes /\ ~ForceRelease(n.scope).scope.engaged
      /\ ~ForceRelease(n.scope).scope.pending
  BY <1>5, ForceReleaseIs DEF States
<1>7. /\ u \in States /\ u.scope = ForceRelease(n.scope).scope /\ u.stop = n.stop
      /\ u.dev = n.dev /\ u.doubt = n.doubt
  <2>1. 0 \in Nat /\ 0 \in 0..2
    OBVIOUS
  <2>. QED  BY <1>5, <1>6, <2>1 DEF States
<1> HIDE DEF u
<1>8. Readied(u)
  BY <1>4, <1>6, <1>7 DEF Readied, Covered, TapsOnly
<1>9. Eases(n, u)
  BY <1>7, <1>8 DEF Eases, LeftDown
<1>10. Eases(loop, loop')
  BY <1>1, <1>2, <1>3, <1>4, <1>9, EasesTwice
<1>11. aux \in Histories
  BY DEF IInv, WorldOK
<1>12. aux' = [aux EXCEPT !.did = "reset", !.press = "none", !.game = LosesTrack("session")]
  BY DEF ResetSession
<1>13. aux'.press = "none" /\ aux'.by = aux.by /\ aux'.game # "open"
  BY <1>11, <1>12, LosesTrackIs DEF Histories
<1>. QED  BY <1>2, <1>6, <1>7, <1>8, <1>10, <1>13 DEF ReadyInv, Quietly, HeldDown

LEMMA OtherQuietly ==
  ASSUME IInv, ReadyInv, [Next]_vars, ~AnyTick
  PROVE  ReadyInv' /\ Quietly
<1>1. CASE ChangeHotkey \/ Pass \/ SwitchKey \/ SwitchKeyFails \/ FinishMacroControl \/ Stall
           \/ UNCHANGED vars
  BY <1>1, QuietActions
<1>2. CASE \E fault \in Faults, took \in BOOLEAN : PrepareForMacro(fault, took)
  BY <1>2, MacroQuietly
<1>3. CASE \E fault \in Faults, took \in BOOLEAN : ResetMouse(fault, took)
  BY <1>3, ResetMouseQuietly
<1>4. CASE \E fault \in Faults, took \in BOOLEAN : ResetSession(fault, took)
  BY <1>4, ResetSessionQuietly
<1>. QED  BY <1>1, <1>2, <1>3, <1>4 DEF Next

LEMMA TickReady ==
  ASSUME IInv, ReadyInv, NEW obs \in Seen, NEW fault \in Faults, NEW took \in BOOLEAN,
         Tick(obs, fault, took)
  PROVE  ReadyInv' /\ Ticks(loop, loop', hot)
<1> DEFINE s == During(fault, took)
           t == Ticked(s, hot, obs)
<1>1. /\ Readied(s) /\ s.scope = loop.scope /\ s.dev = loop.dev /\ s.doubt = loop.doubt
  BY DuringReadied
<1>2. loop' = NoFault(t)
  BY DEF Tick
<1>3. hot \in Profiles \cup {NoHotkey} /\ aux.renewed \in BOOLEAN
  BY DEF IInv, WorldOK, Histories
<1>8. aux'.renewed = (aux.renewed /\ t.scope.engaged)
  BY DEF Tick
<1>4. hot # NoHotkey /\ MayTap(hot) => obs \notin {"turn", "lost"}
  BY DEF Tick, Visible, MayTap
<1> HIDE DEF s
<1>5. Ticks(s, t, hot)
  BY <1>1, <1>3, <1>4, TickedTurns
<1> HIDE DEF t
<1>6. Readied(loop') /\ loop'.scope = t.scope /\ loop'.dev = t.dev /\ loop'.doubt = t.doubt
  BY <1>2, <1>5, NoFaultReadied DEF Ticks
<1>7. Ticks(loop, loop', hot)
  BY <1>1, <1>5, <1>6 DEF Ticks, HeldDown, LeftDown, UnderMask
<1>9. loop'.scope.engaged \in BOOLEAN
  BY <1>6 DEF Readied, States, Scopes
<1>10. ~aux'.renewed => HeldDown(loop')
  BY <1>3, <1>6, <1>7, <1>8, <1>9 DEF ReadyInv, Ticks, HeldDown
<1>. QED  BY <1>6, <1>7, <1>10 DEF ReadyInv

LEMMA InitReady == Init => ReadyInv
<1> SUFFICES ASSUME Init PROVE ReadyInv
  OBVIOUS
<1>1. loop \in States
  BY InitIInv DEF IInv, LoopOK, Settled
<1>2. ~loop.scope.engaged /\ ~loop.scope.pending /\ loop.stop.phase = "idle"
  BY DEF Init, Scope0, NoStop
<1>. QED  BY <1>1, <1>2 DEF ReadyInv, Readied, Covered, TapsOnly, HeldDown

LEMMA ReadySteps ==
  ASSUME IInv, ReadyInv, [Next]_vars
  PROVE  /\ ReadyInv'
         /\ Quietly \/ Ticks(loop, loop', hot)
<1>1. CASE AnyTick
  BY <1>1, TickReady DEF AnyTick
<1>2. CASE ~AnyTick
  BY <1>2, OtherQuietly
<1>. QED  BY <1>1, <1>2

(* A shot whose profile holds the scope waits for it, and one whose        *)
(* profile stops the player waits for the mask, for any profiles and times *)
(* and whatever commands of the device failed.                             *)
THEOREM ShotIsReadyHolds == Spec => ShotIsReady
<1> DEFINE scoped == ~loop.dev.left /\ loop'.dev.left /\ hot.scope = 2 /\ Allowed(hot)
                     /\ ~hot.switch /\ ~aux.renewed => loop'.dev.right
           masked == ~loop.dev.left /\ loop'.dev.left /\ hot.stop # 0 /\ hot.enabled
                     /\ MaskCapable /\ ~Expires /\ loop'.doubt \cap {"left", "mask"} = {}
                     => loop'.dev.mask > 0 \/ (Timed(hot) /\ hot.after = 0)
<1>1. IInv /\ ReadyInv /\ [Next]_vars => ReadyInv'
  BY ReadySteps
<1>2. Spec => [](IInv /\ ReadyInv)
  BY IInvHolds, InitReady, <1>1, PTL DEF Spec
<1>3. ASSUME IInv, ReadyInv, [Next]_vars PROVE scoped /\ masked
  <2>1. ReadyInv' /\ (Quietly \/ Ticks(loop, loop', hot))
    BY <1>3, ReadySteps
  <2>2. SUFFICES ASSUME ~loop.dev.left, loop'.dev.left, Ticks(loop, loop', hot), hot # NoHotkey
                 PROVE  scoped /\ masked
    BY <2>1 DEF Quietly, Eases, Ticks
  <2>3. scoped
    BY <1>3, <2>2 DEF Ticks, ReadyInv
  <2>4. masked
    BY <2>2 DEF Ticks, LeftDown, UnderMask
  <2>. QED  BY <2>3, <2>4
<1>4. IInv /\ ReadyInv /\ [Next]_vars => [scoped]_vars /\ [masked]_vars
  BY <1>3
<1> HIDE DEF scoped, masked
<1>5. Spec => [][scoped]_vars /\ [][masked]_vars
  BY <1>2, <1>4, PTL DEF Spec
<1>. QED  BY <1>5, PTL DEF ShotIsReady, ShotIsScoped, ShotIsMasked, scoped, masked

-----------------------------------------------------------------------------
(* The game's scope.  While it is open and the code has not lost track of  *)
(* it, the program's own scope is open and its notes name the hotkey.      *)
TapOpen ==
    aux.game = "open" =>
        /\ aux.by \in Profiles /\ MayTap(aux.by) /\ TapIsOn(loop)
        /\ loop.last = aux.by.key /\ loop.second = aux.by.second /\ loop.flash = 0

LEMMA QuietTapOpen ==
  ASSUME TapOpen, Quietly
  PROVE  TapOpen'
BY DEF TapOpen, Quietly, Remembers, TapIsOn

(* A whole tick of a hotkey that taps.                                     *)
LEMMA TickedTaps ==
  ASSUME NEW s, Readied(s), s.press = "none", NEW p \in Profiles, p # NoHotkey, MayTap(p),
         NEW obs, obs \notin {"turn", "lost"}
  PROVE  LET t == Ticked(s, p, obs) IN
         /\ t.last = p.key /\ t.second = p.second /\ t.flash = 0
         /\ t.press \in {"none", "failed"} \/ TapIsOn(t)
         /\ TapIsOn(s) /\ s.last = p.key /\ s.second = p.second /\ s.flash = 0
               => TapIsOn(t) /\ t.press = "none"
<1> DEFINE r == AfterShot(s)
           u == TakeProfile(r, p)
           t == Observed(u, p, obs)
<1>1. Ticked(s, p, obs) = t
  BY DEF Ticked, MayTap
<1>2. IsProfile(p) /\ FlashMode(p) = 0
  BY OutputAssumption DEF MayTap
<1>3. Calm(s, r) /\ Readied(r)
  BY AfterShotCalm
<1> HIDE DEF r
<1>4. /\ Took(r, u) /\ u.last = p.key /\ u.second = p.second /\ u.flash = 0
      /\ r.second = p.second /\ r.last = p.key /\ r.flash = 0 => u.scope = r.scope
  BY <1>2, <1>3, TakeProfileTakes
<1> HIDE DEF u
<1>5. Judged(u, t, p)
  BY <1>2, <1>4, ObservedTurns DEF Took, Readied
<1> HIDE DEF t
<1>6. u.press = "none"
  BY <1>3, <1>4 DEF Calm, Took
<1>7. TapIsOn(s) /\ s.last = p.key /\ s.second = p.second /\ s.flash = 0 => TapIsOn(u)
  BY <1>3, <1>4 DEF Calm, TapIsOn
<1>. QED  BY <1>1, <1>4, <1>5, <1>6, <1>7 DEF Judged

LEMMA TickTaps ==
  ASSUME IInv, ReadyInv, TapOpen,
         NEW obs \in Seen, NEW fault \in Faults, NEW took \in BOOLEAN, Tick(obs, fault, took)
  PROVE  TapOpen' /\ (TapsAgain /\ MayTap(hot) => aux.game # "open")
<1> DEFINE s == During(fault, took)
           t == Ticked(s, hot, obs)
<1>1. /\ Readied(s) /\ s.scope = loop.scope /\ s.last = loop.last
      /\ s.second = loop.second /\ s.flash = loop.flash /\ s.press = "none"
  <2>1. loop \in States /\ loop.press = "none"
    BY DEF IInv, LoopOK, Settled
  <2>2. s.press = loop.press
    BY <2>1 DEF During, States
  <2>. QED  BY <2>1, <2>2, DuringReadied
<1>2. loop' = NoFault(t)
  BY DEF Tick
<1>3. hot \in Profiles \cup {NoHotkey}
  BY DEF IInv, WorldOK
<1>4. hot # NoHotkey /\ MayTap(hot) => obs \notin {"turn", "lost"}
  BY DEF Tick, Visible, MayTap
<1>5. /\ aux'.press = t.press /\ aux'.by = GameScope(t).by /\ aux'.game = GameScope(t).game
  BY DEF Tick
<1> HIDE DEF s
<1>6. Readied(t)
  BY <1>1, <1>3, <1>4, TickedTurns DEF Ticks
<1>7. ASSUME hot # NoHotkey, MayTap(hot)
      PROVE  /\ t.last = hot.key /\ t.second = hot.second /\ t.flash = 0
             /\ t.press \in {"none", "failed"} \/ TapIsOn(t)
             /\ TapIsOn(s) /\ s.last = hot.key /\ s.second = hot.second /\ s.flash = 0
                   => TapIsOn(t) /\ t.press = "none"
  BY <1>1, <1>3, <1>4, <1>7, TickedTaps
<1> HIDE DEF t
<1>8. /\ loop'.scope = t.scope /\ loop'.last = t.last
      /\ loop'.second = t.second /\ loop'.flash = t.flash
  BY <1>2, <1>6, NoFaultReadied
<1>9. ASSUME hot # NoHotkey, MayTap(hot), StillHeld, aux.game = "open"
      PROVE  TapIsOn(t) /\ t.press = "none"
  BY <1>1, <1>7, <1>9 DEF TapOpen, TapIsOn, StillHeld
<1>10. TapsAgain /\ MayTap(hot) => aux.game # "open"
  BY <1>5, <1>9 DEF TapsAgain, StillHeld
<1>11. TapOpen'
  <2>1. SUFFICES ASSUME aux'.game = "open"
                 PROVE  /\ aux'.by \in Profiles /\ MayTap(aux'.by) /\ TapIsOn(loop')
                        /\ loop'.last = aux'.by.key /\ loop'.second = aux'.by.second
                        /\ loop'.flash = 0
    BY DEF TapOpen, TapIsOn, MayTap
  <2>2. /\ hot # NoHotkey /\ MayTap(hot)
        /\ \/ aux'.by = hot /\ t.press = "done"
           \/ aux'.by = aux.by /\ StillHeld /\ aux.game = "open"
    <3> DEFINE tapped == t.press # "none" /\ hot # NoHotkey /\ hot.scope = 1
               lost   == IF MayTap(hot) THEN "open" ELSE "other"
    <3>1. GameScope(t) =
            IF Busy(t) \/ StillHeld = tapped THEN [by |-> NoHotkey, game |-> "shut"]
            ELSE IF tapped THEN [by |-> hot, game |-> IF t.press = "done" THEN lost ELSE "failed"]
            ELSE [by |-> aux.by, game |-> IF aux.game = "open" THEN lost ELSE aux.game]
      BY DEF GameScope
    <3>2. /\ tapped => hot # NoHotkey
          /\ StillHeld => hot # NoHotkey
          /\ lost = "open" => MayTap(hot)
          /\ StillHeld \in BOOLEAN /\ tapped \in BOOLEAN
      BY DEF StillHeld
    <3> HIDE DEF tapped, lost
    <3>3. CASE Busy(t) \/ StillHeld = tapped
      <4>1. GameScope(t) = [by |-> NoHotkey, game |-> "shut"]
        BY <3>1, <3>3
      <4>2. GameScope(t).game = "shut"
        BY <4>1
      <4>. QED  BY <1>5, <2>1, <4>2
    <3>4. CASE ~(Busy(t) \/ StillHeld = tapped) /\ tapped
      <4>1. GameScope(t) = [by |-> hot, game |-> IF t.press = "done" THEN lost ELSE "failed"]
        BY <3>1, <3>4
      <4>2. /\ GameScope(t).by = hot
            /\ GameScope(t).game = IF t.press = "done" THEN lost ELSE "failed"
        BY <4>1
      <4>. QED  BY <1>5, <2>1, <3>2, <3>4, <4>2
    <3>5. CASE ~(Busy(t) \/ StillHeld = tapped) /\ ~tapped
      <4>1. GameScope(t) = [by |-> aux.by, game |-> IF aux.game = "open" THEN lost ELSE aux.game]
        BY <3>1, <3>5
      <4>2. /\ GameScope(t).by = aux.by
            /\ GameScope(t).game = IF aux.game = "open" THEN lost ELSE aux.game
        BY <4>1
      <4>3. StillHeld
        BY <3>2, <3>5
      <4>. QED  BY <1>5, <2>1, <3>2, <4>2, <4>3
    <3>. QED  BY <3>3, <3>4, <3>5
  <2>3. CASE aux'.by = hot /\ t.press = "done"
    BY <1>3, <1>7, <1>8, <2>2, <2>3 DEF TapIsOn
  <2>4. CASE aux'.by = aux.by /\ StillHeld /\ aux.game = "open"
    <3>1. hot.key = aux.by.key /\ hot.second = aux.by.second
      BY <2>4 DEF StillHeld
    <3>2. TapIsOn(t) /\ t.last = hot.key /\ t.second = hot.second /\ t.flash = 0
      BY <1>7, <1>9, <2>2, <2>4
    <3>. QED  BY <1>8, <2>4, <3>1, <3>2 DEF TapOpen, TapIsOn
  <2>. QED  BY <2>2, <2>3, <2>4
<1>. QED  BY <1>10, <1>11

LEMMA TapSteps ==
  ASSUME IInv, ReadyInv, TapOpen, [Next]_vars
  PROVE  /\ TapOpen'
         /\ (TapsAgain /\ MayTap(hot) => aux.game # "open") \/ UNCHANGED vars
<1>1. CASE AnyTick
  BY <1>1, TickTaps DEF AnyTick
<1>2. CASE ~AnyTick
  <2>1. Quietly
    BY <1>2, OtherQuietly
  <2>. QED  BY <2>1, QuietTapOpen DEF Quietly, TapsAgain
<1>. QED  BY <1>1, <1>2

(* While the hotkey that opened the game's scope is held the scope is not  *)
(* tapped a second time, for any profiles: whatever targets are lost and   *)
(* found, and with the device replaced and other commands failing.  Which  *)
(* cases lose track of an open scope is said with the property.            *)
THEOREM TapsOnceHolds == Spec => TapsOnce
<1> DEFINE once == TapsAgain /\ MayTap(hot) => aux.game # "open"
           Taps == IInv /\ ReadyInv /\ TapOpen
<1>1. Init => Taps
  BY InitIInv, InitReady DEF Init, TapOpen
<1>2. Taps /\ [Next]_vars => Taps'
  <2>1. SUFFICES ASSUME Taps, [Next]_vars PROVE Taps'
    OBVIOUS
  <2>2. IInv'
    BY <2>1, NextKeeps
  <2>3. ReadyInv'
    BY <2>1, ReadySteps
  <2>4. TapOpen'
    BY <2>1, TapSteps
  <2>. QED  BY <2>2, <2>3, <2>4
<1>3. Taps /\ [Next]_vars => [once]_vars
  BY TapSteps
<1> HIDE DEF Taps, once
<1>4. Spec => [][once]_vars
  BY <1>1, <1>2, <1>3, PTL DEF Spec
<1>. QED  BY <1>4 DEF TapsOnce, once
=============================================================================
