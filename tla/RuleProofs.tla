------------------------------ MODULE RuleProofs ------------------------------
(***************************************************************************)
(* Theorems about a rule: its gate (RuleGate), for every rule, any targets *)
(* and any time, and its script (RuleFlow), for every list of actions.     *)
(***************************************************************************)
EXTENDS RuleGate, RuleFlow, FiniteSetTheorems, SequenceTheorems, WellFoundedInduction, TLAPS

-----------------------------------------------------------------------------
(* The gate.                                                               *)
Gates ==
    [ready : BOOLEAN, previous : Snapshots, before : Nat, everTarget : BOOLEAN,
     longFired : BOOLEAN, keyLocked : BOOLEAN, pending : BOOLEAN, lockedTarget : Int,
     clicks : Nat, starts : Nat, pressedAt : Nat, lastClick : Nat, lastStart : Int,
     enabledAt : Nat, conditionSince : Nat, recent : SUBSET (Nat \X Nat)]

Types ==
    /\ rule \in RuleSet /\ gate \in Gates /\ now \in 0..MaxTime
    /\ held \in {Never} \cup Nat /\ fired \in BOOLEAN
    /\ armed \in [blind : BOOLEAN, released : BOOLEAN, off : BOOLEAN, keysUp : BOOLEAN,
                  left : BOOLEAN, on : Int]

(* The gate's time of the conditions is the time they hold since, unless a *)
(* suppressed tick saw them rise.                                          *)
ConditionIsTimed ==
    /\ gate.previous.condition <=> held # Never
    /\ held # Never /\ ~armed.blind => gate.conditionSince = held
    /\ gate.pending => gate.previous.condition
    /\ ~gate.ready => ~gate.previous.condition

(* What could start the rule now, or is kept to start it, is newer than    *)
(* the last start and the last suppressed tick.                            *)
EventsAreNew ==
    /\ gate.ready /\ rule.event = "key_down"
          => armed.released \/ (gate.previous.all /\ ~gate.pending)
    /\ gate.ready /\ rule.event = "conditions" /\ ~rule.level
          => armed.off \/ (gate.previous.condition /\ ~gate.pending)

(* An open lock was opened by what opens it.                               *)
LocksAreKept ==
    /\ rule.keyLock => gate.keyLocked \/ armed.keysUp
    /\ rule.targetLock => gate.lockedTarget = armed.on \/ armed.left
    /\ gate.keyLocked => rule.keyLock
    /\ gate.lockedTarget # NoTarget => rule.targetLock

(* A gate knows of every start in a log what the limits need, at time n.   *)
Knowing(starts, g, n) ==
    /\ IsFiniteSet(starts) /\ Cardinality(starts) <= g.starts
    /\ IsFiniteSet(g.recent) /\ Cardinality(g.recent) <= g.starts
    /\ g.lastStart <= n
    /\ \A u \in starts : u \in Nat /\ u <= g.lastStart
    /\ \A u \in starts : n - u < AtLeastOne(rule.window) => \E e \in g.recent : e[2] = u

StartsAreCounted == Knowing(log, gate, now)

(* What NothingIsReplayed and LimitsHold ask of a start.                   *)
Sound ==
    /\ rule.event = "key_down" => armed.released
    /\ rule.event = "conditions" /\ ~rule.level => armed.off
    /\ rule.keyLock => armed.keysUp \/ ~gate'.previous.any
    /\ rule.targetLock /\ Found(gate'.previous)
          => armed.left \/ gate'.previous.target # armed.on
    /\ \A u \in log : now' - u >= rule.cooldown
    /\ rule.maxCount > 0 => Cardinality(log') <= rule.maxCount
    /\ rule.windowCount > 0 =>
         Cardinality({u \in log' : now' - u < AtLeastOne(rule.window)}) <= rule.windowCount

IInv == /\ Types /\ ConditionIsTimed /\ EventsAreNew /\ LocksAreKept
        /\ StartsAreCounted /\ HeldLongEnough


LEMMA RuleTypes ==
  ASSUME rule \in RuleSet
  PROVE  /\ rule.gesture \in Nat /\ rule.timer \in Nat /\ rule.cooldown \in Nat
         /\ rule.debounce \in Nat /\ rule.interval \in Nat
         /\ rule.keyLock \in BOOLEAN /\ rule.targetLock \in BOOLEAN /\ rule.level \in BOOLEAN
         /\ rule.maxCount \in Nat /\ rule.window \in Nat /\ rule.windowCount \in Nat
         /\ AtLeastOne(rule.window) \in Nat
BY RuleSetAssumption DEF AtLeastOne

LEMMA SnapshotTypes ==
  ASSUME NEW s \in Snapshots
  PROVE  /\ s.all \in BOOLEAN /\ s.any \in BOOLEAN /\ s.condition \in BOOLEAN
         /\ s.target \in Int /\ (s.all => s.any)
<1>1. /\ s \in [all : BOOLEAN, any : BOOLEAN, condition : BOOLEAN,
                target : Targets \cup {NoTarget}, signal : {"unknown", "off", "on"}]
      /\ s.all => s.any
  BY DEF Snapshots
<1>2. s.target \in Targets \cup {NoTarget}
  BY <1>1
<1>3. s.target \in Int
  <2>1. Targets \subseteq Int /\ NoTarget \in Int
    BY GateBounds DEF NoTarget
  <2>. QED  BY <1>2, <2>1
<1>. QED  BY <1>1, <1>3

(* What a start changes.                                                   *)
LEMMA StartedIs ==
  ASSUME rule \in RuleSet, NEW g \in Gates, NEW s \in Snapshots, NEW t \in Nat
  PROVE  /\ Started(g, s, t) \in Gates
         /\ Started(g, s, t).ready = g.ready
         /\ Started(g, s, t).previous = g.previous
         /\ Started(g, s, t).pending = g.pending
         /\ Started(g, s, t).conditionSince = g.conditionSince
         /\ Started(g, s, t).starts = g.starts + 1
         /\ Started(g, s, t).lastStart = t
         /\ Started(g, s, t).keyLocked = rule.keyLock
         /\ Started(g, s, t).lockedTarget = IF rule.targetLock THEN s.target ELSE g.lockedTarget
         /\ Started(g, s, t).recent = g.recent \cup {<<g.starts, t>>}
<1>1. /\ g.starts + 1 \in Nat /\ t \in Int
      /\ g.recent \cup {<<g.starts, t>>} \in SUBSET (Nat \X Nat)
  BY DEF Gates
<1>2. /\ (IF rule.targetLock THEN s.target ELSE g.lockedTarget) \in Int
      /\ rule.keyLock \in BOOLEAN
  BY RuleTypes, SnapshotTypes DEF Gates
<1>. QED  BY <1>1, <1>2 DEF Gates, Started

(* What a suppressed tick changes.                                         *)
LEMMA SuppressedIs ==
  ASSUME rule \in RuleSet, NEW g \in Gates, NEW s \in Snapshots, NEW t \in Nat
  PROVE  /\ Suppressed(g, s, t) \in Gates
         /\ Suppressed(g, s, t).ready
         /\ Suppressed(g, s, t).previous = s
         /\ ~Suppressed(g, s, t).pending
         /\ Suppressed(g, s, t).conditionSince = IF g.ready THEN g.conditionSince ELSE t
         /\ Suppressed(g, s, t).starts = g.starts
         /\ Suppressed(g, s, t).lastStart = g.lastStart
         /\ Suppressed(g, s, t).keyLocked = g.keyLocked
         /\ Suppressed(g, s, t).lockedTarget = g.lockedTarget
         /\ Suppressed(g, s, t).recent = g.recent
<1> DEFINE pressed == IF s.all THEN t ELSE g.pressedAt
           ever == IF rule.event = "target_first" THEN g.everTarget
                   ELSE g.everTarget \/ Found(s)
           enabled == IF g.ready THEN g.enabledAt ELSE t
           since == IF g.ready THEN g.conditionSince ELSE t
           seen == [g EXCEPT !.ready = TRUE, !.previous = s, !.before = t, !.pending = FALSE]
           kept == [seen EXCEPT !.enabledAt = enabled, !.conditionSince = since,
                                !.pressedAt = pressed, !.everTarget = ever]
<1>1. pressed \in Nat /\ ever \in BOOLEAN /\ enabled \in Nat /\ since \in Nat
  BY DEF Gates
<1>2. Suppressed(g, s, t) = kept
  BY DEF Suppressed, Gates
<1> HIDE DEF pressed, ever, enabled, since
<1>3. /\ seen \in Gates /\ seen.ready = TRUE /\ seen.previous = s /\ seen.pending = FALSE
      /\ seen.starts = g.starts /\ seen.lastStart = g.lastStart /\ seen.recent = g.recent
      /\ seen.keyLocked = g.keyLocked /\ seen.lockedTarget = g.lockedTarget
  BY DEF Gates
<1> HIDE DEF seen
<1>4. /\ kept \in Gates /\ kept.ready = seen.ready /\ kept.previous = seen.previous
      /\ kept.pending = seen.pending /\ kept.conditionSince = since
      /\ kept.starts = seen.starts /\ kept.lastStart = seen.lastStart
      /\ kept.recent = seen.recent
      /\ kept.keyLocked = seen.keyLocked /\ kept.lockedTarget = seen.lockedTarget
  BY <1>1, <1>3 DEF Gates
<1> HIDE DEF kept
<1>. QED  BY <1>2, <1>3, <1>4 DEF since

LEMMA ObservedIs ==
  ASSUME rule \in RuleSet, NEW g \in Gates, NEW s \in Snapshots, NEW t \in Nat
  PROVE  /\ Observed(g, s, t) \in Gates
         /\ Observed(g, s, t).ready = g.ready
         /\ Observed(g, s, t).previous = g.previous
         /\ Observed(g, s, t).pending = g.pending
         /\ Observed(g, s, t).conditionSince = g.conditionSince
         /\ Observed(g, s, t).starts = g.starts
         /\ Observed(g, s, t).lastStart = g.lastStart
         /\ Observed(g, s, t).keyLocked = (g.keyLocked /\ s.any)
         /\ Observed(g, s, t).lockedTarget =
              IF ~Found(s) \/ g.lockedTarget # s.target THEN NoTarget ELSE g.lockedTarget
         /\ Observed(g, s, t).recent = g.recent
<1> DEFINE locked == g.keyLocked /\ s.any
           barred == IF ~Found(s) \/ g.lockedTarget # s.target THEN NoTarget
                     ELSE g.lockedTarget
           open   == [g EXCEPT !.keyLocked = locked, !.lockedTarget = barred]
           clicks == IF t - g.lastClick <= rule.gesture THEN g.clicks + 1 ELSE 1
           press  == [open EXCEPT !.pressedAt = t, !.longFired = FALSE, !.lastClick = t,
                                  !.clicks = clicks]
<1>1. locked \in BOOLEAN /\ barred \in Int /\ clicks \in Nat
  BY SnapshotTypes DEF Gates, NoTarget
<1>2. Observed(g, s, t) = open \/ Observed(g, s, t) = press
  BY DEF Observed, Gates
<1> HIDE DEF locked, barred, clicks
<1>3. /\ open \in Gates /\ open.ready = g.ready /\ open.previous = g.previous
      /\ open.pending = g.pending /\ open.conditionSince = g.conditionSince
      /\ open.starts = g.starts /\ open.lastStart = g.lastStart /\ open.recent = g.recent
      /\ open.keyLocked = locked /\ open.lockedTarget = barred
  BY <1>1 DEF Gates
<1> HIDE DEF open
<1>4. /\ press \in Gates /\ press.ready = g.ready /\ press.previous = g.previous
      /\ press.pending = g.pending /\ press.conditionSince = g.conditionSince
      /\ press.starts = g.starts /\ press.lastStart = g.lastStart /\ press.recent = g.recent
      /\ press.keyLocked = locked /\ press.lockedTarget = barred
  BY <1>1, <1>3 DEF Gates
<1> HIDE DEF press
<1>. QED  BY <1>2, <1>3, <1>4 DEF locked, barred

LEMMA DebouncedIs ==
  ASSUME rule \in RuleSet, NEW g \in Gates, NEW s \in Snapshots, NEW t \in Nat, NEW happened
  PROVE  LET n == Debounced(g, s, t, happened) IN
         /\ n \in Gates
         /\ n.ready = g.ready
         /\ n.pending = (s.condition /\ (g.pending \/ happened))
         /\ n.conditionSince = IF s.condition /\ ~g.previous.condition THEN t
                               ELSE g.conditionSince
         /\ n.starts = g.starts /\ n.lastStart = g.lastStart
         /\ n.keyLocked = g.keyLocked /\ n.lockedTarget = g.lockedTarget
         /\ n.recent = {e \in g.recent : t - e[2] < AtLeastOne(rule.window)}
<1> DEFINE kept == {e \in g.recent : t - e[2] < AtLeastOne(rule.window)}
           keeps == s.condition /\ (g.pending \/ happened)
           ever == g.everTarget \/ Found(s)
           clicks == IF happened /\ rule.event \in {"double", "triple"} THEN 0 ELSE g.clicks
           long == IF happened /\ rule.event = "long" THEN TRUE ELSE g.longFired
           since == IF s.condition /\ ~g.previous.condition THEN t ELSE g.conditionSince
<1>1. /\ kept \in SUBSET (Nat \X Nat) /\ keeps \in BOOLEAN /\ ever \in BOOLEAN
      /\ clicks \in Nat /\ long \in BOOLEAN /\ since \in Nat
  BY DEF Gates
<1>2. Debounced(g, s, t, happened) =
        [g EXCEPT !.clicks = clicks, !.longFired = long, !.everTarget = ever,
                  !.conditionSince = since, !.pending = keeps, !.recent = kept]
  BY DEF Debounced, Gates
<1> HIDE DEF kept, keeps, ever, clicks, long, since
<1>3. LET n == Debounced(g, s, t, happened) IN
         /\ n \in Gates /\ n.ready = g.ready
         /\ n.pending = keeps /\ n.conditionSince = since
         /\ n.starts = g.starts /\ n.lastStart = g.lastStart
         /\ n.keyLocked = g.keyLocked /\ n.lockedTarget = g.lockedTarget
         /\ n.recent = kept
  BY <1>1, <1>2 DEF Gates
<1>. QED  BY <1>3 DEF keeps, since, kept


(* What a poll says and leaves behind.                                     *)
Happens(g, s, t) == Happened(Observed(g, s, t), s, t)

LEMMA HappensIs ==
  ASSUME rule \in RuleSet, NEW g \in Gates, NEW s \in Snapshots, NEW t \in Nat
  PROVE  /\ rule.event = "key_down" => (Happens(g, s, t) <=> s.all /\ ~g.previous.all)
         /\ rule.event = "conditions" /\ ~rule.level
               => (Happens(g, s, t) <=> s.condition /\ ~g.previous.condition)
<1>1. Observed(g, s, t).previous = g.previous
  BY ObservedIs
<1>2. CASE rule.event = "key_down"
  BY <1>1, <1>2 DEF Happens, Happened
<1>3. CASE rule.event = "conditions"
  BY <1>1, <1>3 DEF Happens, Happened
<1>. QED  BY <1>2, <1>3

PollSays(p, g, s, t) ==
    /\ p.gate \in Gates
    /\ p.gate.ready = g.ready
    /\ p.gate.previous = s
    /\ p.gate.starts = g.starts
    /\ p.gate.lastStart = g.lastStart
    /\ p.gate.keyLocked = (g.keyLocked /\ s.any)
    /\ p.gate.lockedTarget = IF ~Found(s) \/ g.lockedTarget # s.target THEN NoTarget
                             ELSE g.lockedTarget
    /\ p.gate.conditionSince = IF s.condition /\ ~g.previous.condition THEN t
                               ELSE g.conditionSince
    /\ p.gate.recent = {e \in g.recent : t - e[2] < AtLeastOne(rule.window)}
    /\ p.gate.pending => s.condition /\ (g.pending \/ Happens(g, s, t))
    /\ p.start \in BOOLEAN
    /\ p.start => /\ ~p.gate.pending
                  /\ s.condition /\ (g.pending \/ Happens(g, s, t))
                  /\ t - p.gate.conditionSince >= rule.debounce
                  /\ ~Limited(p.gate, s, t)

LEMMA PolledIs ==
  ASSUME rule \in RuleSet, NEW g \in Gates, NEW s \in Snapshots, NEW t \in Nat
  PROVE  PollSays(Polled(g, s, t), g, s, t)
<1> DEFINE seen == Observed(g, s, t)
           new  == Debounced(seen, s, t, Happens(g, s, t))
           due  == Due(new, s, t)
           rest == [new EXCEPT !.pending = @ /\ ~due, !.previous = s, !.before = t]
<1>1. /\ seen \in Gates /\ seen.ready = g.ready /\ seen.previous = g.previous
      /\ seen.pending = g.pending /\ seen.conditionSince = g.conditionSince
      /\ seen.starts = g.starts /\ seen.lastStart = g.lastStart
      /\ seen.keyLocked = (g.keyLocked /\ s.any) /\ seen.recent = g.recent
      /\ seen.lockedTarget = IF ~Found(s) \/ g.lockedTarget # s.target THEN NoTarget
                             ELSE g.lockedTarget
  BY ObservedIs
<1>2. Polled(g, s, t) = [gate |-> rest, start |-> due /\ ~Limited(new, s, t)]
  BY DEF Polled, Happens
<1>3. /\ new \in Gates /\ new.ready = g.ready
      /\ new.starts = g.starts /\ new.lastStart = g.lastStart
      /\ new.keyLocked = (g.keyLocked /\ s.any)
      /\ new.lockedTarget = IF ~Found(s) \/ g.lockedTarget # s.target THEN NoTarget
                            ELSE g.lockedTarget
      /\ new.conditionSince = IF s.condition /\ ~g.previous.condition THEN t
                              ELSE g.conditionSince
      /\ new.recent = {e \in g.recent : t - e[2] < AtLeastOne(rule.window)}
      /\ new.pending = (s.condition /\ (g.pending \/ Happens(g, s, t)))
  <2> HIDE DEF seen
  <2>1. /\ new \in Gates /\ new.ready = seen.ready
        /\ new.pending = (s.condition /\ (seen.pending \/ Happens(g, s, t)))
        /\ new.conditionSince = IF s.condition /\ ~seen.previous.condition THEN t
                                ELSE seen.conditionSince
        /\ new.starts = seen.starts /\ new.lastStart = seen.lastStart
        /\ new.keyLocked = seen.keyLocked /\ new.lockedTarget = seen.lockedTarget
        /\ new.recent = {e \in seen.recent : t - e[2] < AtLeastOne(rule.window)}
    BY <1>1, DebouncedIs, SMTT(30)
  <2> HIDE DEF new
  <2>. QED  BY <1>1, <2>1
<1>4. due \in BOOLEAN /\ (due => new.pending /\ s.condition
                                 /\ t - new.conditionSince >= rule.debounce)
  BY DEF Due
<1> HIDE DEF new, due
<1>5. /\ rest \in Gates /\ rest.ready = new.ready /\ rest.previous = s
      /\ rest.starts = new.starts /\ rest.lastStart = new.lastStart
      /\ rest.keyLocked = new.keyLocked /\ rest.lockedTarget = new.lockedTarget
      /\ rest.conditionSince = new.conditionSince /\ rest.recent = new.recent
      /\ rest.pending = (new.pending /\ ~due)
  <2>1. (new.pending /\ ~due) \in BOOLEAN
    OBVIOUS
  <2>. QED  BY <1>3, <2>1 DEF Gates
<1> HIDE DEF rest
<1>6. Limited(rest, s, t) <=> Limited(new, s, t)
  BY <1>5 DEF Limited
<1>7. /\ Polled(g, s, t).gate = rest
      /\ Polled(g, s, t).start = (due /\ ~Limited(new, s, t))
  BY <1>2
<1>8. (due /\ ~Limited(new, s, t)) \in BOOLEAN
  OBVIOUS
<1>. QED  BY <1>3, <1>4, <1>5, <1>6, <1>7, <1>8 DEF PollSays

LEMMA NotLimited ==
  ASSUME rule \in RuleSet, NEW g \in Gates, NEW s \in Snapshots, NEW t \in Nat,
         ~Limited(g, s, t)
  PROVE  /\ ~g.keyLocked
         /\ rule.targetLock /\ Found(s) => g.lockedTarget # s.target
         /\ rule.maxCount > 0 => g.starts < rule.maxCount
         /\ rule.windowCount > 0 => ~(Cardinality(g.recent) >= rule.windowCount)
         /\ t - g.lastStart >= rule.cooldown
<1>1. g.starts \in Nat /\ g.lastStart \in Int
  BY DEF Gates
<1>. QED  BY <1>1, RuleTypes DEF Limited

LEMMA OneMore ==
  ASSUME NEW S, IsFiniteSet(S), NEW n \in Nat, Cardinality(S) <= n, NEW x
  PROVE  IsFiniteSet(S \cup {x}) /\ Cardinality(S \cup {x}) <= n + 1
<1>1. Cardinality(S) \in Nat
  BY FS_CardinalityType
<1>2. /\ IsFiniteSet(S \cup {x})
      /\ Cardinality(S \cup {x}) = IF x \in S THEN Cardinality(S) ELSE Cardinality(S) + 1
  BY FS_AddElement
<1>. QED  BY <1>1, <1>2

(* A start that is noted is counted, and so is what a poll forgets no more *)
(* than it may.                                                            *)
LEMMA StartIsCounted ==
  ASSUME rule \in RuleSet, NEW g \in Gates, NEW s \in Snapshots, NEW t \in Nat,
         NEW n \in Nat, n <= t, NEW starts, Knowing(starts, g, n)
  PROVE  Knowing(starts \cup {t}, Started(g, s, t), t)
<1> DEFINE new == Started(g, s, t)
           first == <<g.starts, t>>
<1>1. /\ new \in Gates /\ new.starts = g.starts + 1 /\ new.lastStart = t
      /\ new.recent = g.recent \cup {first} /\ g.starts \in Nat /\ g.lastStart \in Int
  <2>1. g.starts \in Nat /\ g.lastStart \in Int
    BY DEF Gates
  <2>2. new \in Gates
    BY StartedIs
  <2>3. new.starts = g.starts + 1 /\ new.lastStart = t
    BY StartedIs
  <2>4. new.recent = g.recent \cup {first}
    BY StartedIs
  <2> HIDE DEF new, first
  <2>. QED  BY <2>1, <2>2, <2>3, <2>4
<1> HIDE DEF new, first
<1>2. /\ IsFiniteSet(starts \cup {t}) /\ Cardinality(starts \cup {t}) <= new.starts
  <2>1. IsFiniteSet(starts) /\ Cardinality(starts) <= g.starts
    BY DEF Knowing
  <2>2. /\ IsFiniteSet(starts \cup {t})
        /\ Cardinality(starts \cup {t}) <= g.starts + 1
    BY <1>1, <2>1, OneMore
  <2>. QED  BY <1>1, <2>2
<1>3. /\ IsFiniteSet(new.recent) /\ Cardinality(new.recent) <= new.starts
  <2>1. IsFiniteSet(g.recent) /\ Cardinality(g.recent) <= g.starts
    BY DEF Knowing
  <2>2. /\ IsFiniteSet(g.recent \cup {first})
        /\ Cardinality(g.recent \cup {first}) <= g.starts + 1
    BY <1>1, <2>1, OneMore
  <2>. QED  BY <1>1, <2>2
<1>4. \A u \in starts \cup {t} : u \in Nat /\ u <= new.lastStart
  BY <1>1 DEF Knowing
<1>5. \A u \in starts \cup {t} :
        t - u < AtLeastOne(rule.window) => \E e \in new.recent : e[2] = u
  <2> SUFFICES ASSUME NEW u \in starts \cup {t}, t - u < AtLeastOne(rule.window)
               PROVE  \E e \in new.recent : e[2] = u
    OBVIOUS
  <2>1. CASE u = t
    <3>1. first \in new.recent /\ first[2] = t
      BY <1>1 DEF first
    <3>. QED  BY <2>1, <3>1
  <2>2. CASE u \in starts
    <3>1. n - u < AtLeastOne(rule.window)
      BY <2>2, RuleTypes DEF Knowing
    <3>. QED  BY <2>2, <3>1, <1>1 DEF Knowing
  <2>. QED  BY <2>1, <2>2
<1>6. Knowing(starts \cup {t}, new, t)
  BY <1>1, <1>2, <1>3, <1>4, <1>5 DEF Knowing
<1>. QED  BY <1>6 DEF new

LEMMA TimeIsCounted ==
  ASSUME rule \in RuleSet, NEW g \in Gates, NEW h \in Gates, NEW t \in Nat,
         NEW n \in Nat, n <= t, NEW starts, Knowing(starts, g, n),
         h.starts = g.starts, h.lastStart = g.lastStart,
         \/ h.recent = g.recent
         \/ h.recent = {e \in g.recent : t - e[2] < AtLeastOne(rule.window)}
  PROVE  Knowing(starts, h, t)
<1>1. h.recent \subseteq g.recent /\ g.starts \in Nat /\ g.lastStart \in Int
  BY DEF Gates
<1>2. IsFiniteSet(h.recent) /\ Cardinality(h.recent) <= g.starts
  <2>1. IsFiniteSet(g.recent) /\ Cardinality(g.recent) <= g.starts
    BY DEF Knowing
  <2>2. IsFiniteSet(h.recent) /\ Cardinality(h.recent) <= Cardinality(g.recent)
    BY <1>1, <2>1, FS_Subset
  <2>. QED  BY <1>1, <2>1, <2>2, FS_CardinalityType
<1>3. ASSUME NEW u \in starts, t - u < AtLeastOne(rule.window)
      PROVE  \E e \in h.recent : e[2] = u
  <2>1. n - u < AtLeastOne(rule.window)
    BY <1>3, RuleTypes DEF Knowing
  <2>2. PICK e \in g.recent : e[2] = u
    BY <2>1 DEF Knowing
  <2>3. e \in h.recent
    BY <1>3, <2>2
  <2>. QED  BY <2>2, <2>3
<1>. QED  BY <1>1, <1>2, <1>3 DEF Knowing


(* The starts of the last window are among those that the gate remembers.  *)
LEMMA WindowIsCounted ==
  ASSUME rule \in RuleSet, NEW g \in Gates, NEW t \in Nat, NEW starts, Knowing(starts, g, t)
  PROVE  Cardinality({u \in starts : t - u < AtLeastOne(rule.window)})
           <= Cardinality(g.recent)
<1> DEFINE counted == {u \in starts : t - u < AtLeastOne(rule.window)}
           times == {e[2] : e \in g.recent}
           f == [e \in g.recent |-> e[2]]
<1>1. IsFiniteSet(g.recent)
  BY DEF Knowing
<1>2. f \in Surjection(g.recent, times)
  BY DEF Surjection
<1>3. IsFiniteSet(times) /\ Cardinality(times) <= Cardinality(g.recent)
  <2> HIDE DEF f, times
  <2>. QED  BY <1>1, <1>2, FS_Surjection
<1>4. counted \subseteq times
  BY DEF Knowing
<1> HIDE DEF counted, times
<1>5. IsFiniteSet(counted) /\ Cardinality(counted) <= Cardinality(times)
  BY <1>3, <1>4, FS_Subset
<1>6. /\ Cardinality(counted) \in Nat /\ Cardinality(times) \in Nat
      /\ Cardinality(g.recent) \in Nat
  BY <1>1, <1>3, <1>5, FS_CardinalityType
<1>7. Cardinality(counted) <= Cardinality(g.recent)
  BY <1>3, <1>5, <1>6
<1>. QED  BY <1>7 DEF counted


(* A tick begins with the start by hand, if there is one.                  *)
Noted(t, manual) == IF manual THEN log \cup {t} ELSE log

LEMMA ManualIs ==
  ASSUME IInv, NEW s \in Snapshots, NEW t \in Nat, now <= t, NEW manual \in BOOLEAN
  PROVE  LET g == ManualStart(s, t, manual) IN
         /\ g \in Gates
         /\ g.ready = gate.ready /\ g.previous = gate.previous /\ g.pending = gate.pending
         /\ g.conditionSince = gate.conditionSince
         /\ g.keyLocked = IF manual THEN rule.keyLock ELSE gate.keyLocked
         /\ g.lockedTarget = IF manual /\ rule.targetLock THEN s.target ELSE gate.lockedTarget
         /\ g.lastStart = IF manual THEN t ELSE gate.lastStart
         /\ g.starts = IF manual THEN gate.starts + 1 ELSE gate.starts
         /\ Knowing(Noted(t, manual), g, t)
<1> USE DEF IInv, Types
<1>1. now \in Nat
  BY GateBounds
<1>2. CASE manual
  <2>1. Knowing(log \cup {t}, Started(gate, s, t), t)
    BY <1>1, StartIsCounted DEF StartsAreCounted
  <2>. QED  BY <1>2, <2>1, StartedIs DEF ManualStart, Noted
<1>3. CASE ~manual
  <2>1. Knowing(log, gate, t)
    BY <1>1, TimeIsCounted DEF StartsAreCounted
  <2>. QED  BY <1>3, <2>1 DEF ManualStart, Noted
<1>. QED  BY <1>2, <1>3

PollNoted(s, t, manual, start) == Remember(s, t, FALSE, manual, start)

LEMMA PollRemembers ==
  ASSUME Types, NEW s \in Snapshots, NEW t \in Nat, NEW manual \in BOOLEAN,
         NEW start \in BOOLEAN, PollNoted(s, t, manual, start)
  PROVE  /\ held' = IF ~s.condition THEN Never ELSE IF held = Never THEN t ELSE held
         /\ held' \in {Never} \cup Nat
         /\ log' = IF start THEN Noted(t, manual) \cup {t} ELSE Noted(t, manual)
         /\ fired' = start
         /\ armed' \in [blind : BOOLEAN, released : BOOLEAN, off : BOOLEAN,
                        keysUp : BOOLEAN, left : BOOLEAN, on : Int]
         /\ armed'.blind = (s.condition /\ held # Never /\ armed.blind)
         /\ armed'.released = (~s.all \/ (armed.released /\ ~start))
         /\ armed'.off = (~s.condition \/ (armed.off /\ ~start))
         /\ armed'.keysUp = (~s.any \/ (armed.keysUp /\ ~start))
         /\ armed'.left = (~start /\ (armed.left \/ s.target # armed.on))
         /\ armed'.on = IF start THEN s.target ELSE armed.on
<1>1. /\ armed.on \in Int /\ s.target \in Int /\ held \in {Never} \cup Nat
      /\ gate.ready \in BOOLEAN /\ armed.blind \in BOOLEAN /\ s.condition \in BOOLEAN
  BY SnapshotTypes DEF Types, Gates
<1>2. /\ held' = IF ~s.condition THEN Never ELSE IF held = Never THEN t ELSE held
      /\ log' = IF start THEN Noted(t, manual) \cup {t} ELSE Noted(t, manual)
      /\ fired' = start
  BY DEF PollNoted, Remember, Noted
<1>3. armed' = [blind    |-> s.condition /\ held # Never /\ armed.blind,
                released |-> ~s.all \/ (armed.released /\ ~start),
                off      |-> ~s.condition \/ (armed.off /\ ~start),
                keysUp   |-> ~s.any \/ (armed.keysUp /\ ~start),
                left     |-> ~start /\ (armed.left \/ s.target # armed.on),
                on       |-> IF start THEN s.target ELSE armed.on]
  <2>1. armed'.blind = (s.condition /\ held # Never /\ armed.blind)
    BY <1>1 DEF PollNoted, Remember
  <2>. QED  BY <1>1, <2>1 DEF PollNoted, Remember
<1>. QED  BY <1>1, <1>2, <1>3

LEMMA QuietTickKeeps ==
  ASSUME IInv, NEW s \in Snapshots, NEW t \in 0..MaxTime, now < t, NEW manual \in BOOLEAN,
         now' = t, UNCHANGED rule, QuietTick(s, t, manual)
  PROVE  IInv'
<1> DEFINE g == ManualStart(s, t, manual)
<1>1. t \in Nat /\ now \in Nat /\ now <= t
  BY GateBounds DEF IInv, Types
<1>2. /\ g \in Gates
      /\ g.ready = gate.ready /\ g.previous = gate.previous /\ g.pending = gate.pending
      /\ g.conditionSince = gate.conditionSince
      /\ g.keyLocked = IF manual THEN rule.keyLock ELSE gate.keyLocked
      /\ g.lockedTarget = IF manual /\ rule.targetLock THEN s.target ELSE gate.lockedTarget
      /\ Knowing(Noted(t, manual), g, t)
  BY <1>1, ManualIs
<1> HIDE DEF g
<1>3. /\ gate' \in Gates /\ gate'.ready /\ gate'.previous = s /\ ~gate'.pending
      /\ gate'.conditionSince = IF gate.ready THEN gate.conditionSince ELSE t
      /\ gate'.starts = g.starts /\ gate'.lastStart = g.lastStart
      /\ gate'.keyLocked = g.keyLocked /\ gate'.lockedTarget = g.lockedTarget
      /\ gate'.recent = g.recent
  BY <1>1, <1>2, SuppressedIs DEF g, QuietTick, IInv, Types
<1>4. Remember(s, t, TRUE, manual, FALSE) /\ rule' = rule
  BY DEF QuietTick
<1>5. /\ held' = IF ~s.condition THEN Never ELSE IF held = Never THEN t ELSE held
      /\ held' \in {Never} \cup Nat
      /\ log' = Noted(t, manual) /\ ~fired' /\ fired' \in BOOLEAN
      /\ armed' \in [blind : BOOLEAN, released : BOOLEAN, off : BOOLEAN,
                     keysUp : BOOLEAN, left : BOOLEAN, on : Int]
      /\ armed'.blind = (s.condition /\ IF held = Never THEN gate.ready ELSE armed.blind)
      /\ armed'.released = ~s.all
      /\ armed'.off = ~s.condition
      /\ armed'.keysUp = (~s.any \/ armed.keysUp)
      /\ armed'.left = (armed.left \/ s.target # armed.on)
      /\ armed'.on = armed.on
  <2>1. /\ gate.ready \in BOOLEAN /\ armed.blind \in BOOLEAN /\ s.condition \in BOOLEAN
        /\ armed.on \in Int /\ held \in {Never} \cup Nat
        /\ (s.condition /\ IF held = Never THEN gate.ready ELSE armed.blind) \in BOOLEAN
    BY SnapshotTypes DEF IInv, Types, Gates
  <2>2. /\ held' = IF ~s.condition THEN Never ELSE IF held = Never THEN t ELSE held
        /\ log' = Noted(t, manual) /\ fired' = FALSE
    BY <1>4 DEF Remember, Noted
  <2>3. armed' = [blind    |-> s.condition /\ IF held = Never THEN gate.ready
                                              ELSE armed.blind,
                  released |-> ~s.all, off |-> ~s.condition,
                  keysUp   |-> ~s.any \/ armed.keysUp,
                  left     |-> armed.left \/ s.target # armed.on, on |-> armed.on]
    BY <1>4, <2>1 DEF Remember
  <2>. QED  BY <1>1, <2>1, <2>2, <2>3
<1>6. Types'
  BY <1>3, <1>4, <1>5 DEF IInv, Types
<1>7. ConditionIsTimed'
  BY <1>1, <1>3, <1>5 DEF IInv, ConditionIsTimed, Never
<1>8. EventsAreNew'
  BY <1>3, <1>4, <1>5, SnapshotTypes DEF EventsAreNew
<1>9. LocksAreKept'
  BY <1>2, <1>3, <1>4, <1>5, RuleTypes DEF IInv, Types, LocksAreKept
<1>10. StartsAreCounted'
  BY <1>2, <1>3, <1>4, <1>5, <1>1, TimeIsCounted DEF StartsAreCounted, IInv, Types, Knowing
<1>11. HeldLongEnough'
  BY <1>5 DEF HeldLongEnough
<1>. QED  BY <1>6, <1>7, <1>8, <1>9, <1>10, <1>11 DEF IInv


(* A poll and the start it asks for, if the executor takes it; and what is *)
(* true whenever it starts the rule.                                       *)
LEMMA PollTickKeeps ==
  ASSUME IInv, NEW s \in Snapshots, NEW t \in 0..MaxTime, now < t, NEW manual \in BOOLEAN,
         now' = t, UNCHANGED rule, PollTick(s, t, manual)
  PROVE  IInv' /\ (fired' => Sound)
<1> DEFINE g == ManualStart(s, t, manual)
           poll == Polled(g, s, t)
           p == poll.gate
<1>1. t \in Nat /\ now \in Nat /\ now <= t /\ rule \in RuleSet /\ gate.ready
  BY GateBounds DEF IInv, Types, PollTick
<1>2. /\ g \in Gates
      /\ g.ready = gate.ready /\ g.previous = gate.previous /\ g.pending = gate.pending
      /\ g.conditionSince = gate.conditionSince
      /\ g.keyLocked = IF manual THEN rule.keyLock ELSE gate.keyLocked
      /\ g.lockedTarget = IF manual /\ rule.targetLock THEN s.target ELSE gate.lockedTarget
      /\ g.lastStart = IF manual THEN t ELSE gate.lastStart
      /\ g.starts = IF manual THEN gate.starts + 1 ELSE gate.starts
      /\ Knowing(Noted(t, manual), g, t)
  BY <1>1, ManualIs
<1> HIDE DEF g
<1>3. PollSays(poll, g, s, t)
  BY <1>1, <1>2, PolledIs
<1>4. poll = Polled(g, s, t)
  OBVIOUS
<1> HIDE DEF poll
<1>5. /\ p \in Gates /\ p.ready = g.ready /\ p.previous = s
      /\ p.starts = g.starts /\ p.lastStart = g.lastStart
      /\ p.keyLocked = (g.keyLocked /\ s.any)
      /\ p.lockedTarget = IF ~Found(s) \/ g.lockedTarget # s.target THEN NoTarget
                          ELSE g.lockedTarget
      /\ p.conditionSince = IF s.condition /\ ~g.previous.condition THEN t
                            ELSE g.conditionSince
      /\ p.recent = {e \in g.recent : t - e[2] < AtLeastOne(rule.window)}
      /\ p.pending => s.condition /\ (g.pending \/ Happens(g, s, t))
      /\ poll.start \in BOOLEAN
      /\ poll.start => /\ ~p.pending
                       /\ s.condition /\ (g.pending \/ Happens(g, s, t))
                       /\ t - p.conditionSince >= rule.debounce
                       /\ ~Limited(p, s, t)
  BY <1>3 DEF PollSays
<1>6. PICK start \in BOOLEAN :
        /\ start => poll.start
        /\ gate' = IF start THEN Started(p, s, t) ELSE p
        /\ PollNoted(s, t, manual, start)
  BY <1>5, <1>4 DEF PollTick, PollNoted, g
<1> HIDE DEF p, poll
<1>7. Knowing(Noted(t, manual), p, t)
  BY <1>1, <1>2, <1>5, TimeIsCounted
<1>8. /\ gate' \in Gates /\ gate'.ready = p.ready /\ gate'.previous = s
      /\ gate'.pending = p.pending /\ gate'.conditionSince = p.conditionSince
      /\ gate'.keyLocked = IF start THEN rule.keyLock ELSE p.keyLocked
      /\ gate'.lockedTarget = IF start /\ rule.targetLock THEN s.target ELSE p.lockedTarget
      /\ start => /\ gate'.starts = p.starts + 1
                  /\ gate'.recent = p.recent \cup {<<p.starts, t>>}
      /\ Knowing(IF start THEN Noted(t, manual) \cup {t} ELSE Noted(t, manual), gate', t)
  <2>1. CASE start
    <3>1. Knowing(Noted(t, manual) \cup {t}, Started(p, s, t), t)
      BY <1>1, <1>5, <1>7, StartIsCounted
    <3>2. /\ Started(p, s, t) \in Gates /\ Started(p, s, t).ready = p.ready
          /\ Started(p, s, t).previous = p.previous
          /\ Started(p, s, t).pending = p.pending
          /\ Started(p, s, t).conditionSince = p.conditionSince
          /\ Started(p, s, t).keyLocked = rule.keyLock
          /\ Started(p, s, t).lockedTarget = IF rule.targetLock THEN s.target
                                             ELSE p.lockedTarget
          /\ Started(p, s, t).starts = p.starts + 1
          /\ Started(p, s, t).recent = p.recent \cup {<<p.starts, t>>}
      BY <1>1, <1>5, StartedIs
    <3>3. gate' = Started(p, s, t)
      BY <1>6, <2>1
    <3>. QED  BY <1>5, <2>1, <3>1, <3>2, <3>3
  <2>2. CASE ~start
    BY <1>5, <1>6, <1>7, <2>2
  <2>. QED  BY <2>1, <2>2
<1>9. /\ held' = IF ~s.condition THEN Never ELSE IF held = Never THEN t ELSE held
      /\ held' \in {Never} \cup Nat
      /\ log' = IF start THEN Noted(t, manual) \cup {t} ELSE Noted(t, manual)
      /\ fired' = start
      /\ armed' \in [blind : BOOLEAN, released : BOOLEAN, off : BOOLEAN,
                     keysUp : BOOLEAN, left : BOOLEAN, on : Int]
      /\ armed'.blind = (s.condition /\ held # Never /\ armed.blind)
      /\ armed'.released = (~s.all \/ (armed.released /\ ~start))
      /\ armed'.off = (~s.condition \/ (armed.off /\ ~start))
      /\ armed'.keysUp = (~s.any \/ (armed.keysUp /\ ~start))
      /\ armed'.left = (~start /\ (armed.left \/ s.target # armed.on))
      /\ armed'.on = IF start THEN s.target ELSE armed.on
  BY <1>1, <1>6, PollRemembers DEF IInv
<1>10. Types'
  BY <1>8, <1>9 DEF IInv, Types
<1>11. ConditionIsTimed'
  BY <1>1, <1>2, <1>5, <1>8, <1>9, SnapshotTypes DEF IInv, ConditionIsTimed, Never
<1>12. /\ rule.event = "key_down" => (Happens(g, s, t) <=> s.all /\ ~g.previous.all)
       /\ rule.event = "conditions" /\ ~rule.level
             => (Happens(g, s, t) <=> s.condition /\ ~g.previous.condition)
  BY <1>1, <1>2, HappensIs
<1>13. EventsAreNew'
  BY <1>1, <1>2, <1>5, <1>6, <1>8, <1>9, <1>12, SnapshotTypes DEF IInv, EventsAreNew
<1>14. LocksAreKept'
  BY <1>1, <1>2, <1>5, <1>8, <1>9, RuleTypes, SnapshotTypes DEF IInv, Types, LocksAreKept, Found
<1>15. StartsAreCounted'
  BY <1>8, <1>9 DEF StartsAreCounted, Knowing
<1>16. HeldLongEnough'
  BY <1>1, <1>2, <1>5, <1>6, <1>8, <1>9, <1>11 DEF HeldLongEnough, ConditionIsTimed
<1>17. ASSUME fired' PROVE Sound
  <2>1. start /\ poll.start
    BY <1>6, <1>9, <1>17
  <2>2. /\ ~p.keyLocked
        /\ rule.targetLock /\ Found(s) => p.lockedTarget # s.target
        /\ rule.maxCount > 0 => p.starts < rule.maxCount
        /\ rule.windowCount > 0 => ~(Cardinality(p.recent) >= rule.windowCount)
        /\ t - p.lastStart >= rule.cooldown
    BY <1>1, <1>5, <2>1, NotLimited
  <2>3. /\ rule.event = "key_down" => armed.released
        /\ rule.event = "conditions" /\ ~rule.level => armed.off
    BY <1>1, <1>2, <1>5, <1>12, <2>1 DEF IInv, EventsAreNew
  <2>4. rule.keyLock => armed.keysUp \/ ~gate'.previous.any
    BY <1>2, <1>5, <1>8, <2>2 DEF IInv, LocksAreKept
  <2>5. rule.targetLock /\ Found(gate'.previous)
          => armed.left \/ gate'.previous.target # armed.on
    BY <1>2, <1>5, <1>8, <2>2 DEF IInv, LocksAreKept
  <2>6. \A u \in log : now' - u >= rule.cooldown
    BY <1>1, <1>2, <1>5, <2>2, RuleTypes DEF IInv, StartsAreCounted, Knowing, Gates, Types
  <2>7. Knowing(log', gate', t)
    BY <1>8, <1>9, <2>1
  <2>8. rule.maxCount > 0 => Cardinality(log') <= rule.maxCount
    <3>1. gate'.starts = p.starts + 1 /\ p.starts \in Nat
      BY <1>5, <1>8, <2>1 DEF Gates
    <3>2. Cardinality(log') <= gate'.starts /\ Cardinality(log') \in Nat
      BY <2>7, FS_CardinalityType DEF Knowing
    <3>. QED  BY <1>1, <2>2, <3>1, <3>2, RuleTypes
  <2>9. ASSUME rule.windowCount > 0
        PROVE  Cardinality({u \in log' : now' - u < AtLeastOne(rule.window)})
                 <= rule.windowCount
    <3>1. IsFiniteSet(p.recent) /\ IsFiniteSet(gate'.recent)
      BY <1>7, <2>7 DEF Knowing
    <3>2. Cardinality(p.recent) \in Nat /\ Cardinality(gate'.recent) \in Nat
      BY <3>1, FS_CardinalityType
    <3>3. Cardinality(p.recent) <= rule.windowCount - 1 /\ rule.windowCount - 1 \in Nat
          /\ rule.windowCount \in Nat
      BY <1>1, <2>2, <2>9, <3>2, RuleTypes
    <3>4. Cardinality(gate'.recent) <= rule.windowCount - 1 + 1
      BY <1>8, <2>1, <3>1, <3>3, OneMore
    <3> DEFINE counted == {u \in log' : t - u < AtLeastOne(rule.window)}
    <3>5. Cardinality(counted) <= Cardinality(gate'.recent)
      <4>1. rule \in RuleSet /\ gate' \in Gates /\ t \in Nat
        BY <1>1, <1>8
      <4>. QED  BY <4>1, <2>7, WindowIsCounted
    <3>6. Cardinality(counted) \in Nat
      <4>1. IsFiniteSet(log')
        BY <2>7 DEF Knowing
      <4>. QED  BY <4>1, FS_Subset, FS_CardinalityType
    <3>7. counted = {u \in log' : now' - u < AtLeastOne(rule.window)}
      <4>1. AtLeastOne(rule.window)' = AtLeastOne(rule.window)
        BY DEF AtLeastOne
      <4>. QED  BY <4>1
    <3> HIDE DEF counted
    <3>8. Cardinality(counted) <= rule.windowCount
      BY <3>2, <3>3, <3>4, <3>5, <3>6
    <3>. QED  BY <3>7, <3>8
  <2>. QED  BY <2>3, <2>4, <2>5, <2>6, <2>8, <2>9 DEF Sound
<1>. QED  BY <1>10, <1>11, <1>13, <1>14, <1>15, <1>16, <1>17 DEF IInv

(***************************************************************************)
(* The invariant and the theorems.                                         *)
(***************************************************************************)
LEMMA InitEstablishes ==
  ASSUME Init
  PROVE  IInv
<1>1. /\ FreshGate \in Gates /\ ~FreshGate.ready /\ FreshGate.previous = Blank
      /\ ~FreshGate.previous.condition /\ ~FreshGate.pending /\ ~FreshGate.keyLocked
      /\ FreshGate.lockedTarget = NoTarget /\ FreshGate.lastStart = Never
      /\ FreshGate.starts = 0 /\ FreshGate.recent = {}
  <2>1. Blank \in Snapshots /\ ~Blank.condition
    BY DEF Blank, Snapshots
  <2>2. NoTarget \in Int /\ Never \in Int /\ {} \in SUBSET (Nat \X Nat) /\ 0 \in Nat
    BY DEF NoTarget, Never
  <2> HIDE DEF Blank
  <2>. QED  BY <2>1, <2>2 DEF FreshGate, Gates
<1>2. Types
  <2>1. NoTarget \in Int
    BY DEF NoTarget
  <2>2. armed \in [blind : BOOLEAN, released : BOOLEAN, off : BOOLEAN, keysUp : BOOLEAN,
                   left : BOOLEAN, on : Int]
    BY <2>1 DEF Init
  <2>3. 0 \in 0..MaxTime
    BY GateBounds
  <2>. QED  BY <1>1, <2>2, <2>3 DEF Init, Types
<1>3. ConditionIsTimed /\ EventsAreNew /\ LocksAreKept /\ HeldLongEnough
  BY <1>1, RuleTypes DEF Init, ConditionIsTimed, EventsAreNew, LocksAreKept, HeldLongEnough
<1>4. StartsAreCounted
  <2>1. IsFiniteSet({}) /\ Cardinality({}) = 0
    BY FS_EmptySet
  <2>. QED  BY <1>1, <2>1 DEF Init, StartsAreCounted, Knowing, Never
<1>. QED  BY <1>2, <1>3, <1>4 DEF IInv

LEMMA StutterKeeps ==
  ASSUME IInv, UNCHANGED vars
  PROVE  IInv'
<1>1. Types' /\ ConditionIsTimed' /\ EventsAreNew' /\ LocksAreKept' /\ HeldLongEnough'
  BY DEF IInv, vars, Types, ConditionIsTimed, EventsAreNew, LocksAreKept, HeldLongEnough
<1>2. StartsAreCounted'
  BY DEF IInv, vars, StartsAreCounted, Knowing, AtLeastOne
<1>. QED  BY <1>1, <1>2 DEF IInv

LEMMA StepKeeps ==
  ASSUME IInv, [Next]_vars
  PROVE  IInv' /\ (fired' => Sound \/ UNCHANGED vars)
<1>1. CASE UNCHANGED vars
  BY <1>1, StutterKeeps
<1>2. CASE Work
  <2>1. PICK s \in Snapshots, t \in {now + 1, now + 2}, manual \in BOOLEAN :
          /\ t <= MaxTime /\ now' = t /\ UNCHANGED rule
          /\ QuietTick(s, t, manual) \/ PollTick(s, t, manual)
    BY <1>2 DEF Work
  <2>2. t \in 0..MaxTime /\ now < t
    BY <2>1, GateBounds DEF IInv, Types
  <2>3. CASE QuietTick(s, t, manual)
    <3>1. IInv'
      BY <2>1, <2>2, <2>3, QuietTickKeeps
    <3>2. fired' = FALSE
      BY <2>3 DEF QuietTick, Remember
    <3>. QED  BY <3>1, <3>2
  <2>4. CASE PollTick(s, t, manual)
    BY <2>1, <2>2, <2>4, PollTickKeeps
  <2>. QED  BY <2>1, <2>3, <2>4
<1>. QED  BY <1>1, <1>2 DEF Next, Stop

(* Every step of the gate keeps the inductive invariant.                   *)
THEOREM Invariance == Spec => []IInv
<1>1. Init => IInv
  BY InitEstablishes
<1>2. IInv /\ [Next]_vars => IInv'
  BY StepKeeps
<1>. QED  BY <1>1, <1>2, PTL DEF Spec

(* RuleGate::poll and started of rule_logic.h: what the gate keeps is of   *)
(* the types of the code, an event waits only while the conditions hold,   *)
(* and a debounced rule starts only after the conditions held that long,   *)
(* but for conditions whose rise a suppressed tick hid.                    *)
THEOREM GateInvHolds == Spec => []GateInv
<1>1. IInv => GateInv
  BY DEF IInv, Types, Gates, ConditionIsTimed, LocksAreKept, StartsAreCounted, Knowing,
         GateInv, TypeOK
<1>. QED  BY <1>1, Invariance, PTL

(* A chord or a condition that was there at the last start, or through a   *)
(* suppressed tick, starts nothing before it was gone.                     *)
THEOREM NothingIsReplayedHolds == Spec => NothingIsReplayed
<1> DEFINE Anew == fired' => /\ rule.event = "key_down" => armed.released
                             /\ rule.event = "conditions" /\ ~rule.level => armed.off
<1>1. IInv /\ [Next]_vars => [Anew]_vars
  BY StepKeeps DEF Sound
<1>. QED  BY <1>1, Invariance, PTL DEF Spec, NothingIsReplayed

(* Locks, cooldown, total count and count per window hold for every start  *)
(* by the trigger, starts by hand included in what they count.             *)
THEOREM LimitsHoldHolds == Spec => LimitsHold
<1> DEFINE Keys == fired' /\ rule.keyLock => armed.keysUp \/ ~gate'.previous.any
           Target == fired' /\ rule.targetLock /\ Found(gate'.previous)
                       => armed.left \/ gate'.previous.target # armed.on
           Limits == fired' =>
                       /\ \A u \in log : now' - u >= rule.cooldown
                       /\ rule.maxCount > 0 => Cardinality(log') <= rule.maxCount
                       /\ rule.windowCount > 0 =>
                            Cardinality({u \in log' : now' - u < AtLeastOne(rule.window)})
                              <= rule.windowCount
<1>1. IInv /\ [Next]_vars => [Keys]_vars /\ [Target]_vars /\ [Limits]_vars
  BY StepKeeps DEF Sound
<1>. QED  BY <1>1, Invariance, PTL
          DEF Spec, LimitsHold, LockedUntilKeysUp, OneStartPerTarget, LimitsKept

-----------------------------------------------------------------------------
(* The script.                                                             *)
-----------------------------------------------------------------------------
(* Induction.  The theorems of the library that state it take an operator, *)
(* which the provers cannot instantiate; that a set of naturals has a      *)
(* least element says the same of a set.                                   *)

LEMMA Least ==
    ASSUME NEW T, T \subseteq Nat, T # {}
    PROVE  \E x \in T : \A y \in T : ~(y < x)
<1> DEFINE U == {1..n : n \in T}
<1>1. IsWellFoundedOn(StrictSubsetOrdering(Nat), FiniteSubsetsOf(Nat))
  BY FS_StrictSubsetOrderingWellFounded
<1>2. U \subseteq FiniteSubsetsOf(Nat)
  <2>1. ASSUME NEW n \in T PROVE IsFiniteSet(1..n) /\ 1..n \subseteq Nat
    BY FS_Interval, T \subseteq Nat
  <2> QED BY <2>1 DEF FiniteSubsetsOf
<1>3. U # {} OBVIOUS
<1> HIDE DEF U
<1>4. PICK u \in U : \A v \in U : ~(<<v, u>> \in StrictSubsetOrdering(Nat))
  BY <1>1, <1>2, <1>3, WFMin
<1>5. PICK x \in T : u = 1..x
  BY <1>4 DEF U
<1>6. ASSUME NEW y \in T, y < x PROVE FALSE
  <2>1. 1..y \in U BY DEF U
  <2>2. 1..y \subseteq 1..x /\ x \in 1..x /\ x \notin 1..y
    BY <1>6, T \subseteq Nat
  <2>3. <<1..y, 1..x>> \in StrictSubsetOrdering(Nat)
    BY <2>2, T \subseteq Nat DEF StrictSubsetOrdering
  <2> QED BY <2>1, <2>3, <1>4, <1>5
<1> QED BY <1>6

(* What holds of 0 and passes from each number to the next holds of all.   *)
LEMMA Induction ==
    ASSUME NEW n \in Nat, NEW P, 0 \in P, \A j \in 1..n : j - 1 \in P => j \in P
    PROVE  0..n \subseteq P
<1> DEFINE T == (0..n) \ P
<1>1. SUFFICES ASSUME T # {} PROVE FALSE OBVIOUS
<1>2. T \subseteq Nat OBVIOUS
<1> HIDE DEF T
<1>3. PICK x \in T : \A y \in T : ~(y < x)
  BY <1>1, <1>2, Least
<1>4. x \in 1..n /\ x \notin P BY <1>3 DEF T
<1>5. x - 1 \notin T /\ x - 1 \in 0..n BY <1>2, <1>3, <1>4
<1>6. x - 1 \in P BY <1>5 DEF T
<1> QED BY <1>4, <1>6

-----------------------------------------------------------------------------
(* The compiler, one action after the other.                               *)
Runs(p, n, r) == r = [i \in 0..n |-> IF i = 0 THEN Nothing(p) ELSE CompileAction(p, r[i - 1], i)]

(* The function compileFlow defines by recursion exists.                   *)
LEMMA RunExists ==
  ASSUME NEW p, NEW n \in Nat
  PROVE  \E r : Runs(p, n, r)
<1> DEFINE P == {m \in Nat : \E r : Runs(p, m, r)}
<1>1. 0 \in P
  <2> DEFINE r == [i \in 0..0 |-> Nothing(p)]
  <2>1. r = [i \in 0..0 |-> IF i = 0 THEN Nothing(p) ELSE CompileAction(p, r[i - 1], i)]
    OBVIOUS
  <2>. QED  BY <2>1 DEF Runs
<1>2. ASSUME NEW m \in 1..n, m - 1 \in P PROVE m \in P
  <2>1. PICK g : Runs(p, m - 1, g)
    BY <1>2
  <2> DEFINE r == [i \in 0..m |-> IF i = m THEN CompileAction(p, g[m - 1], m) ELSE g[i]]
  <2>2. ASSUME NEW i \in 0..m
        PROVE  r[i] = IF i = 0 THEN Nothing(p) ELSE CompileAction(p, r[i - 1], i)
    <3>1. CASE i = m
      BY <3>1
    <3>2. CASE i # m
      <4>1. i \in 0..(m - 1)
        BY <3>2
      <4>2. r[i] = g[i] /\ (i # 0 => r[i - 1] = g[i - 1])
        BY <4>1
      <4>. QED  BY <2>1, <4>1, <4>2 DEF Runs
    <3>. QED  BY <3>1, <3>2
  <2>3. r = [i \in 0..m |-> IF i = 0 THEN Nothing(p) ELSE CompileAction(p, r[i - 1], i)]
    BY <2>2
  <2> HIDE DEF r
  <2>. QED  BY <2>3 DEF Runs
<1> HIDE DEF P
<1>3. 0..n \subseteq P
  BY <1>1, <1>2, Induction
<1>. QED  BY <1>3 DEF P

Finished(c) == [c EXCEPT !.error = @ \/ c.stack # <<>>]

(* compileFlow is the last state of a run of the compiler.                 *)
LEMMA CompileRuns ==
  ASSUME NEW p \in Seq(Acts)
  PROVE  \E r : Runs(p, Len(p), r) /\ compileFlow(p) = Finished(r[Len(p)])
<1> DEFINE u == CHOOSE r : Runs(p, Len(p), r)
<1>1. Runs(p, Len(p), u)
  BY RunExists
<1>2. compileFlow(p) = Finished(u[Len(p)])
  BY DEF compileFlow, Finished, Runs
<1>. QED  BY <1>1, <1>2

-----------------------------------------------------------------------------
(* What the compiler keeps, and what one action does to it.                *)
Lines(p) == [1..Len(p) -> 0..Len(p)]
Compiling(p) == [end : Lines(p), begin : Lines(p), otherwise : Lines(p),
                 stack : Seq(1..Len(p)), error : BOOLEAN]

SkipsOver(p, c, i, d) ==
    /\ p[i].op \in {"jump", "plain"} /\ (p[i].op = "jump" => p[i].n \in DOMAIN p)
    /\ d.stack = c.stack /\ d.end = c.end /\ d.begin = c.begin /\ d.otherwise = c.otherwise
Opens(p, c, i, d) ==
    /\ p[i].op \in Openers /\ Len(c.stack) + 1 <= MaxNesting
    /\ d.stack = Append(c.stack, i)
    /\ d.end = c.end /\ d.begin = c.begin /\ d.otherwise = c.otherwise
BelongsTo(op) == IF op = "else" THEN "if" ELSE "switch"
Divides(p, c, i, d) ==
    /\ p[i].op \in Branches /\ c.stack # <<>> /\ p[Top(c)].op = BelongsTo(p[i].op)
    /\ p[i].op = "else" => c.otherwise[Top(c)] = 0
    /\ d.stack = c.stack /\ d.end = c.end /\ d.begin = [c.begin EXCEPT ![i] = Top(c)]
    /\ d.otherwise = IF p[i].op = "else" THEN [c.otherwise EXCEPT ![Top(c)] = i] ELSE c.otherwise
Ends(p, c, i, d) ==
    /\ p[i].op \in Closers /\ c.stack # <<>> /\ Matches(p[Top(c)].op, p[i].op)
    /\ d.stack = SubSeq(c.stack, 1, Len(c.stack) - 1)
    /\ d.begin = [c.begin EXCEPT ![i] = Top(c)] /\ d.otherwise = c.otherwise
    /\ d.end = [j \in 1..Len(p) |->
                   IF j = Top(c) \/ (Top(c) < j /\ j < i /\ c.begin[j] = Top(c)) THEN i
                   ELSE c.end[j]]
IsLoop(p, c, k) == p[c.stack[k]].op \in Loops
Leaves(p, c, i, d) ==
    /\ p[i].op \in {"break", "continue"}
    /\ d.stack = c.stack /\ d.end = c.end /\ d.otherwise = c.otherwise
    /\ \E k \in 1..Len(c.stack) :
         /\ IsLoop(p, c, k) /\ \A l \in 1..Len(c.stack) : IsLoop(p, c, l) => l <= k
         /\ d.begin = [c.begin EXCEPT ![i] = c.stack[k]]

Accepts(p, c, i, d) == SkipsOver(p, c, i, d) \/ Opens(p, c, i, d) \/ Divides(p, c, i, d)
                       \/ Ends(p, c, i, d) \/ Leaves(p, c, i, d)

Rejects(p, c, i) ==
    \/ p[i].op = "jump" /\ p[i].n \notin DOMAIN p
    \/ p[i].op \in Openers /\ Len(c.stack) + 1 > MaxNesting
    \/ /\ p[i].op \in Branches
       /\ \/ c.stack = <<>> \/ p[Top(c)].op # BelongsTo(p[i].op)
          \/ p[i].op = "else" /\ c.otherwise[Top(c)] # 0
    \/ p[i].op \in Closers /\ (c.stack = <<>> \/ ~Matches(p[Top(c)].op, p[i].op))
    \/ p[i].op \in {"break", "continue"} /\ \A k \in 1..Len(c.stack) : ~IsLoop(p, c, k)

(* The top of a stack that is not empty.                                   *)
LEMMA TopIs ==
  ASSUME NEW p \in Seq(Acts), NEW c \in Compiling(p), c.stack # <<>>
  PROVE  Top(c) \in 1..Len(p) /\ Len(c.stack) \in 1..Len(c.stack) /\ Len(c.stack) \in Nat
<1>1. c.stack \in Seq(1..Len(p))
  BY DEF Compiling
<1>2. Len(c.stack) \in Nat /\ Len(c.stack) # 0
  BY <1>1, EmptySeq
<1>. QED  BY <1>1, <1>2, ElementOfSeq DEF Top

(* The actions of a program are of one of four kinds or stand alone.       *)
LEMMA OpsAre ==
  ASSUME NEW p \in Seq(Acts), NEW i \in 1..Len(p)
  PROVE  /\ DOMAIN p = 1..Len(p) /\ Len(p) \in Nat /\ p[i].n \in Nat
         /\ p[i].op \in Openers \cup Closers \cup Branches \cup {"break", "continue", "jump", "plain"}
<1>1. p[i] \in Acts /\ DOMAIN p = 1..Len(p) /\ Len(p) \in Nat
  BY ElementOfSeq, LenProperties
<1>. QED  BY <1>1 DEF Acts, Others

(* A set of numbers up to m has a greatest one.                            *)
LEMMA LastOf ==
  ASSUME NEW m \in Nat, NEW S, S \subseteq 1..m, S # {}
  PROVE  \E k \in S : \A l \in S : l <= k
<1> DEFINE T == {m - k : k \in S}
<1>1. T \subseteq Nat /\ T # {}
  <2>1. \A k \in S : m - k \in Nat
    OBVIOUS
  <2>2. PICK k \in S : TRUE
    OBVIOUS
  <2>3. m - k \in T
    OBVIOUS
  <2>. QED  BY <2>1, <2>3
<1> HIDE DEF T
<1>2. PICK x \in T : \A y \in T : ~(y < x)
  BY <1>1, Least
<1>3. PICK k \in S : x = m - k
  BY <1>2 DEF T
<1>4. ASSUME NEW l \in S PROVE l <= k
  <2>1. m - l \in T
    BY DEF T
  <2>. QED  BY <1>2, <1>3, <2>1
<1>. QED  BY <1>4

LEMMA PushIs ==
  ASSUME NEW S, NEW s \in Seq(S), NEW x \in S
  PROVE  LET t == Append(s, x) IN
         /\ t \in Seq(S) /\ Len(t) = Len(s) + 1 /\ t[Len(t)] = x
         /\ \A k \in 1..Len(s) : t[k] = s[k]
         /\ t # <<>>
BY AppendProperties, EmptySeq

LEMMA PopIs ==
  ASSUME NEW S, NEW s \in Seq(S), s # <<>>
  PROVE  LET t == SubSeq(s, 1, Len(s) - 1) IN
         /\ t \in Seq(S) /\ Len(t) = Len(s) - 1
         /\ \A k \in 1..Len(t) : t[k] = s[k]
<1>0. Len(s) \in Nat \ {0}
  BY EmptySeq
<1>1. Len(s) \in Nat /\ Len(s) >= 1
  BY <1>0
<1>2. \A k \in 1..(Len(s) - 1) : s[k] \in S
  BY <1>1, ElementOfSeq
<1> DEFINE t == SubSeq(s, 1, Len(s) - 1)
<1>3. /\ t \in Seq(S)
      /\ Len(t) = IF 1 <= Len(s) - 1 THEN Len(s) - 1 - 1 + 1 ELSE 0
      /\ \A k \in 1..(Len(s) - 1 - 1 + 1) : t[k] = s[1 + k - 1]
  BY <1>1, <1>2, SubSeqProperties
<1> HIDE DEF t
<1>4. Len(t) = Len(s) - 1
  <2>1. Len(t) = IF 1 <= Len(s) - 1 THEN Len(s) - 1 - 1 + 1 ELSE 0
    BY <1>3
  <2>2. CASE Len(s) = 1
    BY <2>1, <2>2
  <2>3. CASE Len(s) # 1
    <3> DEFINE n == Len(s)
    <3>1. n \in Nat /\ n >= 1 /\ n # 1 /\ Len(t) = IF 1 <= n - 1 THEN n - 1 - 1 + 1 ELSE 0
      BY <1>1, <2>1, <2>3
    <3> HIDE DEF n
    <3>2. Len(t) = n - 1
      BY <3>1
    <3>. QED  BY <3>2 DEF n
  <2>. QED  BY <2>2, <2>3
<1>5. \A k \in 1..Len(t) : t[k] = s[k]
  BY <1>1, <1>3, <1>4
<1>. QED  BY <1>3, <1>4, <1>5 DEF t

(* A break is bound to the innermost open loop, or rejected.               *)
LEMMA BindsTo ==
  ASSUME NEW p \in Seq(Acts), NEW i \in 1..Len(p), NEW c \in Compiling(p)
  PROVE  LET d == BindToLoop(p, c, i) IN
         IF \A k \in 1..Len(c.stack) : ~IsLoop(p, c, k) THEN d = Reject(c)
         ELSE \E k \in 1..Len(c.stack) :
                /\ IsLoop(p, c, k) /\ \A l \in 1..Len(c.stack) : IsLoop(p, c, l) => l <= k
                /\ d = [c EXCEPT !.begin[i] = c.stack[k]]
<1> DEFINE loops == {k \in DOMAIN c.stack : p[c.stack[k]].op \in Loops}
<1>1. DOMAIN c.stack = 1..Len(c.stack) /\ Len(c.stack) \in Nat
  BY LenProperties DEF Compiling
<1>2. loops = {k \in 1..Len(c.stack) : IsLoop(p, c, k)}
  BY <1>1 DEF IsLoop
<1>3. BindToLoop(p, c, i) = IF loops = {} THEN Reject(c)
        ELSE [c EXCEPT !.begin[i] = c.stack[CHOOSE k \in loops : \A l \in loops : l <= k]]
  BY DEF BindToLoop
<1> HIDE DEF loops
<1>4. CASE loops = {}
  BY <1>2, <1>3, <1>4
<1>5. CASE loops # {}
  <2>1. \E k \in loops : \A l \in loops : l <= k
    BY <1>1, <1>2, <1>5, LastOf
  <2> DEFINE k == CHOOSE j \in loops : \A l \in loops : l <= j
  <2>2. k \in loops /\ \A l \in loops : l <= k
    BY <2>1
  <2>3. BindToLoop(p, c, i) = [c EXCEPT !.begin[i] = c.stack[k]]
    BY <1>3, <1>5
  <2> HIDE DEF k
  <2>4. k \in 1..Len(c.stack) /\ IsLoop(p, c, k) /\ \A l \in 1..Len(c.stack) : IsLoop(p, c, l) => l <= k
    BY <1>2, <2>2
  <2>. QED  BY <2>3, <2>4
<1>. QED  BY <1>4, <1>5

(* Which part of the compiler an action goes to.                           *)
LEMMA ByKind ==
  ASSUME NEW p, NEW i, NEW c, ~c.error
  PROVE  /\ p[i].op = "jump" => CompileAction(p, c, i) = [c EXCEPT !.error = p[i].n \notin DOMAIN p]
         /\ p[i].op \in Openers => CompileAction(p, c, i) = OpenBlock(c, i)
         /\ p[i].op \in Branches => CompileAction(p, c, i) = BranchOf(p, c, i)
         /\ p[i].op \in Closers => CompileAction(p, c, i) = CloseBlock(p, c, i)
         /\ p[i].op \in {"break", "continue"} => CompileAction(p, c, i) = BindToLoop(p, c, i)
         /\ p[i].op = "plain" => CompileAction(p, c, i) = c
<1> DEFINE o == p[i].op
           u == [c EXCEPT !.error = p[i].n \notin DOMAIN p]
           v == OpenBlock(c, i)
           w == BranchOf(p, c, i)
           x == CloseBlock(p, c, i)
           y == BindToLoop(p, c, i)
<1>1. CompileAction(p, c, i) =
        CASE o = "jump" -> u [] o \in Openers -> v [] o \in Branches -> w
          [] o \in Closers -> x [] o \in {"break", "continue"} -> y [] OTHER -> c
  BY DEF CompileAction
<1> HIDE DEF o, u, v, w, x, y
<1>3. /\ o = "jump" => CompileAction(p, c, i) = u
      /\ o \in Openers => CompileAction(p, c, i) = v
      /\ o \in Branches => CompileAction(p, c, i) = w
      /\ o \in Closers => CompileAction(p, c, i) = x
      /\ o \in {"break", "continue"} => CompileAction(p, c, i) = y
      /\ o = "plain" => CompileAction(p, c, i) = c
  BY <1>1 DEF Openers, Loops, Branches, Closers
<1>. QED  BY <1>3 DEF o, u, v, w, x, y

(* An action is rejected for its reasons, or does what its kind does.      *)
LEMMA NotRejected ==
  ASSUME NEW p \in Seq(Acts), NEW i \in 1..Len(p), NEW c \in Compiling(p), ~c.error
  PROVE  LET d == CompileAction(p, c, i) IN
         /\ d \in Compiling(p)
         /\ d.error <=> Rejects(p, c, i)
         /\ ~d.error => Accepts(p, c, i, d)
<1> DEFINE d == CompileAction(p, c, i)
<1>1. /\ DOMAIN p = 1..Len(p) /\ Len(p) \in Nat /\ p[i].n \in Nat
      /\ p[i].op \in Openers \cup Closers \cup Branches \cup {"break", "continue", "jump", "plain"}
  BY OpsAre
<1>2. /\ c.end \in Lines(p) /\ c.begin \in Lines(p) /\ c.otherwise \in Lines(p)
      /\ c.stack \in Seq(1..Len(p)) /\ Len(c.stack) \in Nat
  BY LenProperties DEF Compiling
<1>3. c.stack # <<>> => Top(c) \in 1..Len(p)
  BY TopIs
<1>4. CASE p[i].op = "jump"
  <2>1. d = [c EXCEPT !.error = p[i].n \notin DOMAIN p]
    BY <1>4, ByKind
  <2> HIDE DEF d
  <2>2. d \in Compiling(p)
    BY <2>1 DEF Compiling
  <2>3. /\ d.error <=> p[i].n \notin DOMAIN p
        /\ d.stack = c.stack /\ d.end = c.end /\ d.begin = c.begin /\ d.otherwise = c.otherwise
    BY <2>1 DEF Compiling
  <2>4. d.error <=> Rejects(p, c, i)
    BY <1>4, <2>3 DEF Rejects, Openers, Loops, Branches, Closers
  <2>. QED  BY <1>4, <2>2, <2>3, <2>4 DEF Accepts, SkipsOver, d
<1>5. CASE p[i].op \in Openers
  <2> DEFINE t == Append(c.stack, i)
             e == Len(c.stack) + 1 > MaxNesting
  <2>0. d = OpenBlock(c, i)
    BY <1>5, ByKind
  <2>1. d = [c EXCEPT !.stack = t, !.error = e]
    BY <2>0 DEF OpenBlock, Compiling
  <2>2. t \in Seq(1..Len(p)) /\ e \in BOOLEAN
    BY <1>2, PushIs
  <2> HIDE DEF d, t, e
  <2>3. d \in Compiling(p)
    BY <2>1, <2>2 DEF Compiling
  <2>4. d.error = e /\ d.stack = t /\ d.end = c.end /\ d.begin = c.begin
        /\ d.otherwise = c.otherwise
    BY <2>1 DEF Compiling
  <2>5. e <=> Rejects(p, c, i)
    BY <1>5 DEF Rejects, Openers, Loops, Branches, Closers, e
  <2>6. ~e => Len(c.stack) + 1 <= MaxNesting
    BY <1>2, ProgramsAssumption DEF e
  <2>7. ~e => Opens(p, c, i, d)
    BY <1>5, <2>4, <2>6 DEF Opens, t
  <2>. QED  BY <2>3, <2>4, <2>5, <2>7 DEF Accepts, d
<1>6. CASE p[i].op \in Branches
  <2> DEFINE s == Top(c)
             b == [c.begin EXCEPT ![i] = s]
             o == IF p[i].op = "else" THEN [c.otherwise EXCEPT ![s] = i] ELSE c.otherwise
             bad == \/ c.stack = <<>> \/ p[s].op # BelongsTo(p[i].op)
                    \/ p[i].op = "else" /\ c.otherwise[s] # 0
  <2>0. d = BranchOf(p, c, i)
    BY <1>6, ByKind
  <2>1. d = IF bad THEN Reject(c) ELSE [c EXCEPT !.begin = b, !.otherwise = o]
    <3>1. CASE p[i].op = "else"
      BY <2>0, <3>1 DEF BranchOf, BelongsTo, Compiling
    <3>2. CASE p[i].op = "case"
      <4>1. bad <=> c.stack = <<>> \/ p[s].op # "switch"
        BY <3>2 DEF BelongsTo
      <4>2. o = c.otherwise
        BY <3>2
      <4>3. d = IF c.stack = <<>> \/ p[s].op # "switch" THEN Reject(c) ELSE [c EXCEPT !.begin = b]
        BY <2>0, <3>2 DEF BranchOf, Compiling
      <4>4. [c EXCEPT !.begin = b, !.otherwise = o] = [c EXCEPT !.begin = b]
        BY <4>2 DEF Compiling
      <4>. QED  BY <4>1, <4>3, <4>4
    <3>. QED  BY <1>6, <3>1, <3>2 DEF Branches
  <2>2. ~bad => b \in Lines(p) /\ o \in Lines(p)
    BY <1>2, <1>3, SMTT(30) DEF Lines
  <2>3. Rejects(p, c, i) <=> bad
    BY <1>6 DEF Rejects, Openers, Loops, Branches, Closers
  <2> HIDE DEF d, b, o
  <2>4. CASE bad
    <3> HIDE DEF bad
    <3>. QED  BY <2>1, <2>3, <2>4 DEF Reject, Compiling, d
  <2>5. CASE ~bad
    <3>1. d = [c EXCEPT !.begin = b, !.otherwise = o]
      BY <2>1, <2>5
    <3>2. d \in Compiling(p) /\ ~d.error /\ d.stack = c.stack /\ d.end = c.end /\ d.begin = b
          /\ d.otherwise = o
      BY <2>2, <2>5, <3>1 DEF Compiling
    <3>3. Divides(p, c, i, d)
      BY <1>6, <2>5, <3>2 DEF Divides, b, o
    <3>. QED  BY <2>3, <2>5, <3>2, <3>3 DEF Accepts, d
  <2>. QED  BY <2>4, <2>5
<1>7. CASE p[i].op \in Closers
  <2> DEFINE s == Top(c)
             b == [c.begin EXCEPT ![i] = s]
             e == [j \in 1..Len(p) |-> IF j = s \/ (s < j /\ j < i /\ c.begin[j] = s) THEN i
                                       ELSE c.end[j]]
             t == SubSeq(c.stack, 1, Len(c.stack) - 1)
             bad == c.stack = <<>> \/ ~Matches(p[s].op, p[i].op)
  <2>0. d = CloseBlock(p, c, i)
    BY <1>7, ByKind
  <2>1. d = IF bad THEN Reject(c) ELSE [c EXCEPT !.stack = t, !.begin = b, !.end = e]
    BY <1>1, <2>0 DEF CloseBlock, Compiling
  <2>2. ~bad => b \in Lines(p) /\ e \in Lines(p) /\ t \in Seq(1..Len(p))
    <3>0. ~bad => t \in Seq(1..Len(p))
      BY <1>2, PopIs
    <3>1. ~bad => b \in Lines(p)
      BY <1>2, <1>3 DEF Lines
    <3>2. ~bad => e \in Lines(p)
      BY <1>2, <1>3 DEF Lines
    <3>. QED  BY <3>0, <3>1, <3>2
  <2>3. Rejects(p, c, i) <=> bad
    BY <1>7 DEF Rejects, Openers, Loops, Branches, Closers
  <2> HIDE DEF d, b, e, t
  <2>4. CASE bad
    <3> HIDE DEF bad
    <3>. QED  BY <2>1, <2>3, <2>4 DEF Reject, Compiling, d
  <2>5. CASE ~bad
    <3>1. d = [c EXCEPT !.stack = t, !.begin = b, !.end = e]
      BY <2>1, <2>5
    <3>2. d \in Compiling(p) /\ ~d.error /\ d.stack = t /\ d.end = e /\ d.begin = b
          /\ d.otherwise = c.otherwise
      BY <2>2, <2>5, <3>1 DEF Compiling
    <3>3. Ends(p, c, i, d)
      BY <1>7, <2>5, <3>2 DEF Ends, b, e, t
    <3>. QED  BY <2>3, <2>5, <3>2, <3>3 DEF Accepts, d
  <2>. QED  BY <2>4, <2>5
<1>8. CASE p[i].op \in {"break", "continue"}
  <2> DEFINE none == \A k \in 1..Len(c.stack) : ~IsLoop(p, c, k)
  <2>1. d = BindToLoop(p, c, i)
    BY <1>8, ByKind
  <2>2. Rejects(p, c, i) <=> none
    BY <1>8 DEF Rejects, Openers, Loops, Branches, Closers
  <2>3. IF none THEN d = Reject(c)
        ELSE \E k \in 1..Len(c.stack) :
                /\ IsLoop(p, c, k) /\ \A l \in 1..Len(c.stack) : IsLoop(p, c, l) => l <= k
                /\ d = [c EXCEPT !.begin[i] = c.stack[k]]
    BY <2>1, BindsTo
  <2> HIDE DEF d
  <2>4. CASE none
    <3> HIDE DEF none
    <3>. QED  BY <2>2, <2>3, <2>4 DEF Reject, Compiling, d
  <2>5. CASE ~none
    <3>1. PICK k \in 1..Len(c.stack) :
                /\ IsLoop(p, c, k) /\ \A l \in 1..Len(c.stack) : IsLoop(p, c, l) => l <= k
                /\ d = [c EXCEPT !.begin[i] = c.stack[k]]
      BY <2>3, <2>5
    <3> HIDE DEF none
    <3>2. c.stack[k] \in 1..Len(p)
      BY <1>2, ElementOfSeq
    <3> DEFINE b == [c.begin EXCEPT ![i] = c.stack[k]]
    <3>3. b \in Lines(p)
      BY <1>2, <3>2 DEF Lines
    <3>4. d = [c EXCEPT !.begin = b]
      BY <3>1 DEF Compiling
    <3>5. b = [c.begin EXCEPT ![i] = c.stack[k]]
      OBVIOUS
    <3> HIDE DEF b
    <3>6. d \in Compiling(p) /\ ~d.error /\ d.stack = c.stack /\ d.end = c.end /\ d.begin = b
          /\ d.otherwise = c.otherwise
      BY <3>3, <3>4 DEF Compiling
    <3>7. Leaves(p, c, i, d)
      BY <1>8, <3>1, <3>5, <3>6 DEF Leaves
    <3>. QED  BY <2>2, <2>5, <3>6, <3>7 DEF Accepts, d
  <2>. QED  BY <2>4, <2>5
<1>9. CASE p[i].op = "plain"
  <2>1. d = c
    BY <1>9, ByKind
  <2>2. ~Rejects(p, c, i)
    BY <1>9 DEF Rejects, Openers, Loops, Branches, Closers
  <2>. QED  BY <1>9, <2>1, <2>2 DEF Accepts, SkipsOver
<1>. QED  BY <1>1, <1>4, <1>5, <1>6, <1>7, <1>8, <1>9

-----------------------------------------------------------------------------
(* What the lines read so far look like, as long as none was rejected.     *)

(* The stack holds the blocks that are open, the outer ones first.         *)
Stacked(p, i, c) ==
    /\ Len(c.stack) <= MaxNesting
    /\ \A k \in 1..Len(c.stack) :
         c.stack[k] \in 1..i /\ p[c.stack[k]].op \in Openers /\ c.end[c.stack[k]] = 0
    /\ \A k, l \in 1..Len(c.stack) : k < l => c.stack[k] < c.stack[l]
    /\ \A s \in 1..i : p[s].op \in Openers /\ c.end[s] = 0 => \E k \in 1..Len(c.stack) : c.stack[k] = s
(* What has not been read has no pair, and what opens a block no beginning. *)
Unset(p, i, c) ==
    \A j \in 1..Len(p) : /\ j > i \/ p[j].op \in Openers => c.begin[j] = 0
                         /\ j > i => c.end[j] = 0 /\ c.otherwise[j] = 0
(* A closed block and its end point at one another.                        *)
OpenersPair(p, i, c) ==
    \A s \in 1..i : p[s].op \in Openers /\ c.end[s] # 0 =>
        /\ c.end[s] \in (s + 1)..i /\ p[c.end[s]].op \in Closers
        /\ Matches(p[s].op, p[c.end[s]].op) /\ c.begin[c.end[s]] = s
ClosersPair(p, i, c) ==
    \A e \in 1..i : p[e].op \in Closers =>
        /\ c.begin[e] \in 1..(e - 1) /\ p[c.begin[e]].op \in Openers /\ c.end[c.begin[e]] = e
(* Two blocks are apart or one is inside the other.                        *)
Nested(p, i, c) ==
    \A s, t \in 1..i : /\ p[s].op \in Openers /\ p[t].op \in Openers
                       /\ s < t /\ c.end[s] # 0
        => c.end[s] < t \/ (c.end[t] # 0 /\ c.end[t] < c.end[s])
(* A break or a continue has the innermost of the loops around it.         *)
Around(c, s, j) == s < j /\ (c.end[s] = 0 \/ j < c.end[s])
LoopsPair(p, i, c) ==
    \A b \in 1..i : p[b].op \in {"break", "continue"} =>
        /\ c.begin[b] \in 1..(b - 1) /\ p[c.begin[b]].op \in Loops /\ Around(c, c.begin[b], b)
        /\ \A l \in 1..(b - 1) : p[l].op \in Loops /\ Around(c, l, b) => l <= c.begin[b]
(* A branch is directly inside the block it divides and ends with it.      *)
BranchesPair(p, i, c) ==
    \A k \in 1..i : p[k].op \in Branches =>
        /\ c.begin[k] \in 1..(k - 1) /\ p[c.begin[k]].op = BelongsTo(p[k].op)
        /\ c.end[k] = c.end[c.begin[k]] /\ Around(c, c.begin[k], k)
        /\ \A t \in (c.begin[k] + 1)..(k - 1) : p[t].op \in Openers => c.end[t] \in 1..(k - 1)
        /\ p[k].op = "else" => c.otherwise[c.begin[k]] = k
ElsesPair(p, i, c) ==
    \A s \in 1..Len(p) : c.otherwise[s] # 0 =>
        /\ c.otherwise[s] \in 1..i /\ p[c.otherwise[s]].op = "else"
        /\ c.begin[c.otherwise[s]] = s
JumpsLand(p, i) == \A j \in 1..i : p[j].op = "jump" => p[j].n \in DOMAIN p

Structure(p, i, c) ==
    /\ Stacked(p, i, c) /\ Unset(p, i, c) /\ OpenersPair(p, i, c) /\ ClosersPair(p, i, c)
    /\ Nested(p, i, c) /\ LoopsPair(p, i, c) /\ BranchesPair(p, i, c) /\ ElsesPair(p, i, c)
    /\ JumpsLand(p, i)

(* The kinds of actions, as far as the proofs tell them apart.             *)
LEMMA Kinds ==
  /\ Loops \subseteq Openers
  /\ \A o \in Openers : /\ o \notin Closers /\ o \notin Branches
                        /\ o \notin {"break", "continue"} /\ o # "jump" /\ o # "plain"
  /\ \A o \in Closers : o \notin Branches /\ o \notin {"break", "continue"} /\ o # "jump" /\ o # "plain"
  /\ \A o \in Branches : /\ o \notin {"break", "continue"} /\ o # "jump" /\ o # "plain"
                         /\ BelongsTo(o) \in Openers /\ BelongsTo(o) \notin Loops
  /\ "jump" \notin {"break", "continue"} /\ "plain" \notin {"break", "continue"} /\ "plain" # "jump"
BY DEF Loops, Openers, Closers, Branches, BelongsTo

(* Nothing has been read at first.                                         *)
LEMMA AtFirst ==
  ASSUME NEW p \in Seq(Acts)
  PROVE  Nothing(p) \in Compiling(p) /\ ~Nothing(p).error /\ Structure(p, 0, Nothing(p))
<1> DEFINE c == Nothing(p)
<1>1. DOMAIN p = 1..Len(p) /\ Len(p) \in Nat
  BY LenProperties
<1>2. c = [end |-> [i \in 1..Len(p) |-> 0], begin |-> [i \in 1..Len(p) |-> 0],
           otherwise |-> [i \in 1..Len(p) |-> 0], stack |-> <<>>, error |-> FALSE]
  BY <1>1 DEF Nothing
<1>3. <<>> \in Seq(1..Len(p)) /\ Len(<<>>) = 0
  BY EmptySeq
<1> HIDE DEF c
<1>4. [i \in 1..Len(p) |-> 0] \in Lines(p)
  BY <1>1 DEF Lines
<1>5. c \in Compiling(p) /\ ~c.error
  BY <1>2, <1>3, <1>4 DEF Compiling
<1>6. /\ c.end = [i \in 1..Len(p) |-> 0] /\ c.begin = [i \in 1..Len(p) |-> 0]
      /\ c.otherwise = [i \in 1..Len(p) |-> 0] /\ Len(c.stack) = 0
  BY <1>2, <1>3
<1>7. Stacked(p, 0, c)
  BY <1>6, ProgramsAssumption DEF Stacked
<1>8. Unset(p, 0, c) /\ ElsesPair(p, 0, c) /\ JumpsLand(p, 0)
  BY <1>6 DEF Unset, ElsesPair, JumpsLand
<1>9. OpenersPair(p, 0, c) /\ ClosersPair(p, 0, c) /\ Nested(p, 0, c)
  BY <1>6 DEF OpenersPair, ClosersPair, Nested
<1>10. LoopsPair(p, 0, c) /\ BranchesPair(p, 0, c)
  BY <1>6 DEF LoopsPair, BranchesPair
<1>. QED  BY <1>5, <1>7, <1>8, <1>9, <1>10 DEF Structure, c

LEMMA SkipKeeps ==
  ASSUME NEW p \in Seq(Acts), NEW i \in 1..Len(p), NEW c \in Compiling(p), NEW d \in Compiling(p),
         Structure(p, i - 1, c), SkipsOver(p, c, i, d)
  PROVE  Structure(p, i, d)
<1>1. Len(p) \in Nat /\ i \in Nat /\ DOMAIN p = 1..Len(p)
  BY LenProperties
<1>2. d.stack = c.stack /\ d.end = c.end /\ d.begin = c.begin /\ d.otherwise = c.otherwise
  BY DEF SkipsOver
<1>3. /\ p[i].op \notin Openers /\ p[i].op \notin Closers /\ p[i].op \notin Branches
      /\ p[i].op \notin {"break", "continue"}
  BY Kinds DEF SkipsOver
<1>4. Stacked(p, i, d)
  <2>1. Stacked(p, i - 1, c) /\ \A s \in 1..(i - 1) : s \in 1..i
    BY <1>1 DEF Structure
  <2>2. \A s \in 1..i : p[s].op \in Openers => s \in 1..(i - 1)
    BY <1>1, <1>3
  <2>. QED  BY <1>2, <2>1, <2>2 DEF Stacked
<1>5. Unset(p, i, d)
  BY <1>1, <1>2, <1>3 DEF Structure, Unset
<1>6. OpenersPair(p, i, d)
  BY <1>1, <1>2, <1>3 DEF Structure, OpenersPair
<1>7. ClosersPair(p, i, d)
  BY <1>1, <1>2, <1>3 DEF Structure, ClosersPair
<1>8. Nested(p, i, d)
  BY <1>1, <1>2, <1>3 DEF Structure, Nested
<1>9. LoopsPair(p, i, d)
  BY <1>1, <1>2, <1>3 DEF Structure, LoopsPair, Around
<1>10. BranchesPair(p, i, d)
  BY <1>1, <1>2, <1>3 DEF Structure, BranchesPair, Around
<1>11. ElsesPair(p, i, d)
  BY <1>1, <1>2 DEF Structure, ElsesPair
<1>12. JumpsLand(p, i)
  BY <1>1 DEF Structure, JumpsLand, SkipsOver
<1>. QED  BY <1>4, <1>5, <1>6, <1>7, <1>8, <1>9, <1>10, <1>11, <1>12 DEF Structure

LEMMA OpenKeeps ==
  ASSUME NEW p \in Seq(Acts), NEW i \in 1..Len(p), NEW c \in Compiling(p), NEW d \in Compiling(p),
         Structure(p, i - 1, c), Opens(p, c, i, d)
  PROVE  Structure(p, i, d)
<1>1. Len(p) \in Nat /\ i \in Nat /\ DOMAIN p = 1..Len(p)
  BY LenProperties
<1>2. d.end = c.end /\ d.begin = c.begin /\ d.otherwise = c.otherwise
  BY DEF Opens
<1>3. /\ p[i].op \in Openers /\ p[i].op \notin Closers /\ p[i].op \notin Branches
      /\ p[i].op \notin {"break", "continue"} /\ p[i].op # "jump"
  BY Kinds DEF Opens
<1>4. Stacked(p, i, d)
  <2> DEFINE m == Len(c.stack)
  <2>1. /\ m \in Nat /\ m + 1 <= MaxNesting /\ Len(d.stack) = m + 1 /\ d.stack[m + 1] = i
        /\ \A k \in 1..m : d.stack[k] = c.stack[k]
    BY PushIs, LenProperties DEF Opens, Compiling
  <2>2. Stacked(p, i - 1, c) /\ c.end[i] = 0
    BY <1>1 DEF Structure, Unset
  <2> HIDE DEF m
  <2>3. \A k \in 1..Len(d.stack) :
          d.stack[k] \in 1..i /\ p[d.stack[k]].op \in Openers /\ d.end[d.stack[k]] = 0
    <3>1. ASSUME NEW k \in 1..m
          PROVE  c.stack[k] \in 1..(i - 1) /\ p[c.stack[k]].op \in Openers /\ c.end[c.stack[k]] = 0
      BY <2>2 DEF Stacked, m
    <3>. QED  BY <1>1, <1>2, <1>3, <2>1, <2>2, <3>1, SMTT(30)
  <2>4. \A k, l \in 1..Len(d.stack) : k < l => d.stack[k] < d.stack[l]
    <3>1. \A k, l \in 1..m : c.stack[k] \in 1..(i - 1) /\ (k < l => c.stack[k] < c.stack[l])
      BY <2>2 DEF Stacked, m
    <3>2. ASSUME NEW k \in 1..(m + 1), NEW l \in 1..(m + 1), k < l PROVE d.stack[k] < d.stack[l]
      <4>1. k \in 1..m /\ (l \in 1..m \/ l = m + 1)
        BY <2>1, <3>2
      <4>2. d.stack[k] = c.stack[k] /\ c.stack[k] \in 1..(i - 1)
        BY <2>1, <3>1, <4>1
      <4>3. CASE l \in 1..m
        BY <2>1, <3>1, <3>2, <4>1, <4>2, <4>3
      <4>4. CASE l = m + 1
        BY <1>1, <2>1, <4>2, <4>4
      <4>. QED  BY <4>1, <4>3, <4>4
    <3>. QED  BY <2>1, <3>2
  <2>5. \A s \in 1..i : p[s].op \in Openers /\ d.end[s] = 0 => \E k \in 1..Len(d.stack) : d.stack[k] = s
    <3>1. \A s \in 1..(i - 1) : p[s].op \in Openers /\ c.end[s] = 0 => \E k \in 1..m : c.stack[k] = s
      BY <2>2 DEF Stacked, m
    <3>2. m + 1 \in 1..Len(d.stack) /\ 1..m \subseteq 1..Len(d.stack)
      BY <2>1
    <3>. QED  BY <1>1, <1>2, <2>1, <3>1, <3>2, SMTT(30)
  <2>6. Len(d.stack) <= MaxNesting
    BY <2>1
  <2>. QED  BY <2>3, <2>4, <2>5, <2>6 DEF Stacked
<1>5. Unset(p, i, d)
  BY <1>1, <1>2, <1>3 DEF Structure, Unset
<1>6. OpenersPair(p, i, d)
  BY <1>1, <1>2, <1>3 DEF Structure, OpenersPair, Unset
<1>7. ClosersPair(p, i, d)
  BY <1>1, <1>2, <1>3 DEF Structure, ClosersPair
<1>8. Nested(p, i, d)
  BY <1>1, <1>2, <1>3 DEF Structure, Nested, OpenersPair
<1>9. LoopsPair(p, i, d)
  BY <1>1, <1>2, <1>3 DEF Structure, LoopsPair, Around
<1>10. BranchesPair(p, i, d)
  BY <1>1, <1>2, <1>3 DEF Structure, BranchesPair, Around
<1>11. ElsesPair(p, i, d)
  BY <1>1, <1>2 DEF Structure, ElsesPair
<1>12. JumpsLand(p, i)
  BY <1>1, <1>3 DEF Structure, JumpsLand
<1>. QED  BY <1>4, <1>5, <1>6, <1>7, <1>8, <1>9, <1>10, <1>11, <1>12 DEF Structure

(* The block on top is the last one opened that is still open.             *)
LEMMA TopIsInnermost ==
  ASSUME NEW p \in Seq(Acts), NEW i \in 1..Len(p), NEW c \in Compiling(p),
         Structure(p, i - 1, c), c.stack # <<>>
  PROVE  /\ Top(c) \in 1..(i - 1) /\ p[Top(c)].op \in Openers /\ c.end[Top(c)] = 0
         /\ c.begin[Top(c)] = 0
         /\ \A t \in (Top(c) + 1)..(i - 1) : p[t].op \in Openers => c.end[t] \in (t + 1)..(i - 1)
<1>1. Len(p) \in Nat /\ i \in Nat /\ DOMAIN p = 1..Len(p)
  BY LenProperties
<1> DEFINE m == Len(c.stack)
<1>2. m \in 1..m /\ m \in Nat /\ Top(c) = c.stack[m]
  BY TopIs DEF Top
<1> HIDE DEF m
<1>3. /\ \A k \in 1..m : c.stack[k] \in 1..(i - 1) /\ p[c.stack[k]].op \in Openers /\ c.end[c.stack[k]] = 0
      /\ \A k, l \in 1..m : k < l => c.stack[k] < c.stack[l]
      /\ \A s \in 1..(i - 1) : p[s].op \in Openers /\ c.end[s] = 0 => \E k \in 1..m : c.stack[k] = s
  BY DEF Structure, Stacked, m
<1>4. Top(c) \in 1..(i - 1) /\ p[Top(c)].op \in Openers /\ c.end[Top(c)] = 0
  BY <1>2, <1>3
<1>5. c.begin[Top(c)] = 0
  BY <1>1, <1>4 DEF Structure, Unset
<1>6. ASSUME NEW t \in (Top(c) + 1)..(i - 1), p[t].op \in Openers
      PROVE  c.end[t] \in (t + 1)..(i - 1)
  <2>1. t \in 1..(i - 1)
    BY <1>1, <1>4
  <2>2. c.end[t] # 0
    <3>1. SUFFICES ASSUME c.end[t] = 0 PROVE FALSE
      OBVIOUS
    <3>2. PICK k \in 1..m : c.stack[k] = t
      BY <1>3, <1>6, <2>1, <3>1
    <3>3. CASE k = m
      BY <1>1, <1>2, <1>4, <3>2, <3>3
    <3>4. CASE k # m
      <4>1. k < m
        BY <1>2, <3>4
      <4>2. c.stack[k] < c.stack[m]
        BY <1>2, <1>3, <4>1
      <4>. QED  BY <1>1, <1>2, <1>4, <3>2, <4>2
    <3>. QED  BY <3>3, <3>4
  <2>. QED  BY <1>6, <2>1, <2>2 DEF Structure, OpenersPair
<1>. QED  BY <1>4, <1>5, <1>6

LEMMA DivideKeeps ==
  ASSUME NEW p \in Seq(Acts), NEW i \in 1..Len(p), NEW c \in Compiling(p), NEW d \in Compiling(p),
         Structure(p, i - 1, c), Divides(p, c, i, d)
  PROVE  Structure(p, i, d)
<1> DEFINE s == Top(c)
<1>1. Len(p) \in Nat /\ i \in Nat /\ DOMAIN p = 1..Len(p) /\ c.begin \in Lines(p) /\ c.otherwise \in Lines(p)
  BY LenProperties DEF Compiling
<1>2. /\ d.stack = c.stack /\ d.end = c.end /\ p[s].op = BelongsTo(p[i].op)
      /\ d.begin = [c.begin EXCEPT ![i] = s]
      /\ d.otherwise = IF p[i].op = "else" THEN [c.otherwise EXCEPT ![s] = i] ELSE c.otherwise
      /\ p[i].op = "else" => c.otherwise[s] = 0
  BY DEF Divides
<1>3. /\ p[i].op \in Branches /\ p[i].op \notin Openers /\ p[i].op \notin Closers
      /\ p[i].op \notin {"break", "continue"} /\ p[i].op # "jump"
  BY Kinds DEF Divides
<1>4. /\ s \in 1..(i - 1) /\ p[s].op \in Openers /\ c.end[s] = 0 /\ c.begin[s] = 0
      /\ \A t \in (s + 1)..(i - 1) : p[t].op \in Openers => c.end[t] \in (t + 1)..(i - 1)
  BY TopIsInnermost DEF Divides
<1> HIDE DEF s
<1>5. /\ d.begin[i] = s /\ \A j \in 1..Len(p) : j # i => d.begin[j] = c.begin[j]
  BY <1>1, <1>2 DEF Lines
<1>6. /\ \A j \in 1..Len(p) : j # s => d.otherwise[j] = c.otherwise[j]
      /\ d.otherwise[s] = IF p[i].op = "else" THEN i ELSE c.otherwise[s]
  BY <1>1, <1>2, <1>4 DEF Lines
<1>7. Stacked(p, i, d)
  <2>1. Stacked(p, i - 1, c) /\ \A t \in 1..(i - 1) : t \in 1..i
    BY <1>1 DEF Structure
  <2>2. \A t \in 1..i : p[t].op \in Openers => t \in 1..(i - 1)
    BY <1>1, <1>3
  <2>. QED  BY <1>2, <2>1, <2>2 DEF Stacked
<1>8. Unset(p, i, d)
  BY <1>1, <1>2, <1>3, <1>4, <1>5, <1>6 DEF Structure, Unset
<1>9. OpenersPair(p, i, d)
  BY <1>1, <1>2, <1>3, <1>5 DEF Structure, OpenersPair
<1>10. ClosersPair(p, i, d)
  BY <1>1, <1>2, <1>3, <1>5 DEF Structure, ClosersPair
<1>11. Nested(p, i, d)
  BY <1>1, <1>2, <1>3 DEF Structure, Nested
<1>12. LoopsPair(p, i, d)
  BY <1>1, <1>2, <1>3, <1>5 DEF Structure, LoopsPair, Around
<1>13. BranchesPair(p, i, d)
  <2>1. ASSUME NEW k \in 1..i, p[k].op \in Branches
        PROVE  /\ d.begin[k] \in 1..(k - 1) /\ p[d.begin[k]].op = BelongsTo(p[k].op)
               /\ d.end[k] = d.end[d.begin[k]] /\ Around(d, d.begin[k], k)
               /\ \A t \in (d.begin[k] + 1)..(k - 1) : p[t].op \in Openers => d.end[t] \in 1..(k - 1)
               /\ p[k].op = "else" => d.otherwise[d.begin[k]] = k
    <3>1. CASE k = i
      <4>1. c.end[i] = 0
        BY <1>1 DEF Structure, Unset
      <4>2. \A t \in (s + 1)..(i - 1) : p[t].op \in Openers => c.end[t] \in 1..(i - 1)
        BY <1>1, <1>4
      <4>. QED  BY <1>1, <1>2, <1>4, <1>5, <1>6, <3>1, <4>1, <4>2 DEF Around
    <3>2. CASE k # i
      <4>1. k \in 1..(i - 1) /\ k \in 1..Len(p) /\ d.begin[k] = c.begin[k]
        BY <1>1, <1>5, <3>2
      <4>2. /\ c.begin[k] \in 1..(k - 1) /\ p[c.begin[k]].op = BelongsTo(p[k].op)
            /\ c.end[k] = c.end[c.begin[k]] /\ Around(c, c.begin[k], k)
            /\ \A t \in (c.begin[k] + 1)..(k - 1) : p[t].op \in Openers => c.end[t] \in 1..(k - 1)
            /\ p[k].op = "else" => c.otherwise[c.begin[k]] = k
        BY <2>1, <4>1 DEF Structure, BranchesPair
      <4>3. p[k].op = "else" => d.otherwise[c.begin[k]] = k
        BY <1>1, <1>2, <1>6, <4>1, <4>2
      <4>. QED  BY <1>2, <4>1, <4>2, <4>3 DEF Around
    <3>. QED  BY <3>1, <3>2
  <2>. QED  BY <2>1 DEF BranchesPair
<1>14. ElsesPair(p, i, d)
  BY <1>1, <1>3, <1>4, <1>5, <1>6 DEF Structure, ElsesPair
<1>15. JumpsLand(p, i)
  BY <1>1, <1>3 DEF Structure, JumpsLand
<1>. QED  BY <1>7, <1>8, <1>9, <1>10, <1>11, <1>12, <1>13, <1>14, <1>15 DEF Structure

LEMMA LeaveKeeps ==
  ASSUME NEW p \in Seq(Acts), NEW i \in 1..Len(p), NEW c \in Compiling(p), NEW d \in Compiling(p),
         Structure(p, i - 1, c), Leaves(p, c, i, d)
  PROVE  Structure(p, i, d)
<1>1. Len(p) \in Nat /\ i \in Nat /\ DOMAIN p = 1..Len(p) /\ c.begin \in Lines(p)
  BY LenProperties DEF Compiling
<1>2. PICK k \in 1..Len(c.stack) :
        /\ IsLoop(p, c, k) /\ \A l \in 1..Len(c.stack) : IsLoop(p, c, l) => l <= k
        /\ d.begin = [c.begin EXCEPT ![i] = c.stack[k]]
  BY DEF Leaves
<1> DEFINE s == c.stack[k]
<1>3. /\ d.stack = c.stack /\ d.end = c.end /\ d.otherwise = c.otherwise
      /\ p[i].op \in {"break", "continue"} /\ d.begin = [c.begin EXCEPT ![i] = s]
  BY <1>2 DEF Leaves
<1>4. p[i].op \notin Openers /\ p[i].op \notin Closers /\ p[i].op \notin Branches /\ p[i].op # "jump"
  BY <1>3, Kinds
<1>5. s \in 1..(i - 1) /\ p[s].op \in Loops /\ p[s].op \in Openers /\ c.end[s] = 0
  BY <1>2, Kinds DEF Structure, Stacked, IsLoop
<1>6. \A l \in 1..(i - 1) : p[l].op \in Loops /\ c.end[l] = 0 => l <= s
  <2>1. ASSUME NEW l \in 1..(i - 1), p[l].op \in Loops, c.end[l] = 0
        PROVE  l <= s
    <3>1. p[l].op \in Openers
      BY <2>1, Kinds
    <3>2. PICK h \in 1..Len(c.stack) : c.stack[h] = l
      BY <2>1, <3>1 DEF Structure, Stacked
    <3>3. h <= k
      BY <1>2, <2>1, <3>2 DEF IsLoop
    <3>4. CASE h = k
      BY <1>1, <3>2, <3>4
    <3>5. CASE h # k
      <4>1. Len(c.stack) \in Nat
        BY LenProperties DEF Compiling
      <4>2. h < k
        BY <3>3, <3>5, <4>1
      <4>3. c.stack[h] < c.stack[k]
        BY <4>2 DEF Structure, Stacked
      <4>. QED  BY <1>1, <1>5, <3>2, <4>3
    <3>. QED  BY <3>4, <3>5
  <2>. QED  BY <2>1
<1> HIDE DEF s
<1>7. /\ d.begin[i] = s /\ \A j \in 1..Len(p) : j # i => d.begin[j] = c.begin[j]
  BY <1>1, <1>3 DEF Lines
<1>8. Stacked(p, i, d)
  <2>1. Stacked(p, i - 1, c) /\ \A t \in 1..(i - 1) : t \in 1..i
    BY <1>1 DEF Structure
  <2>2. \A t \in 1..i : p[t].op \in Openers => t \in 1..(i - 1)
    BY <1>1, <1>4
  <2>. QED  BY <1>3, <2>1, <2>2 DEF Stacked
<1>9. Unset(p, i, d)
  BY <1>1, <1>3, <1>4, <1>7 DEF Structure, Unset
<1>10. OpenersPair(p, i, d)
  BY <1>1, <1>3, <1>4, <1>7 DEF Structure, OpenersPair
<1>11. ClosersPair(p, i, d)
  BY <1>1, <1>3, <1>4, <1>7 DEF Structure, ClosersPair
<1>12. Nested(p, i, d)
  BY <1>1, <1>3, <1>4 DEF Structure, Nested
<1>13. LoopsPair(p, i, d)
  <2>1. ASSUME NEW b \in 1..i, p[b].op \in {"break", "continue"}
        PROVE  /\ d.begin[b] \in 1..(b - 1) /\ p[d.begin[b]].op \in Loops /\ Around(d, d.begin[b], b)
               /\ \A l \in 1..(b - 1) : p[l].op \in Loops /\ Around(d, l, b) => l <= d.begin[b]
    <3>1. CASE b = i
      <4>1. s < i /\ Around(d, s, i)
        BY <1>1, <1>3, <1>5 DEF Around
      <4>2. ASSUME NEW l \in 1..(i - 1), p[l].op \in Loops, Around(d, l, i)
            PROVE  l <= s
        <5>1. c.end[l] # 0 => c.end[l] \in (l + 1)..(i - 1)
          BY <4>2, Kinds DEF Structure, OpenersPair
        <5>2. c.end[l] = 0
          BY <1>1, <1>3, <4>2, <5>1 DEF Around
        <5>. QED  BY <1>6, <4>2, <5>2
      <4>. QED  BY <1>5, <1>7, <3>1, <4>1, <4>2
    <3>2. CASE b # i
      <4>1. b \in 1..(i - 1) /\ d.begin[b] = c.begin[b]
        BY <1>1, <1>7, <3>2
      <4>. QED  BY <1>3, <2>1, <4>1 DEF Structure, LoopsPair, Around
    <3>. QED  BY <3>1, <3>2
  <2>. QED  BY <2>1 DEF LoopsPair
<1>14. BranchesPair(p, i, d)
  BY <1>1, <1>3, <1>4, <1>7 DEF Structure, BranchesPair, Around
<1>15. ElsesPair(p, i, d)
  BY <1>1, <1>3, <1>4, <1>7, Kinds DEF Structure, ElsesPair, Branches
<1>16. JumpsLand(p, i)
  BY <1>1, <1>4 DEF Structure, JumpsLand
<1>. QED  BY <1>8, <1>9, <1>10, <1>11, <1>12, <1>13, <1>14, <1>15, <1>16 DEF Structure

LEMMA EndKeeps ==
  ASSUME NEW p \in Seq(Acts), NEW i \in 1..Len(p), NEW c \in Compiling(p), NEW d \in Compiling(p),
         Structure(p, i - 1, c), Ends(p, c, i, d)
  PROVE  Structure(p, i, d)
<1> DEFINE s == Top(c)
<1>1. Len(p) \in Nat /\ i \in Nat /\ DOMAIN p = 1..Len(p) /\ c.begin \in Lines(p)
  BY LenProperties DEF Compiling
<1>2. /\ c.stack # <<>> /\ Matches(p[s].op, p[i].op) /\ d.otherwise = c.otherwise
      /\ d.begin = [c.begin EXCEPT ![i] = s]
      /\ d.end = [j \in 1..Len(p) |->
                   IF j = s \/ (s < j /\ j < i /\ c.begin[j] = s) THEN i ELSE c.end[j]]
  BY DEF Ends
<1>3. /\ p[i].op \in Closers /\ p[i].op \notin Openers /\ p[i].op \notin Branches
      /\ p[i].op \notin {"break", "continue"} /\ p[i].op # "jump"
  BY Kinds DEF Ends
<1>4. /\ s \in 1..(i - 1) /\ p[s].op \in Openers /\ c.end[s] = 0 /\ c.begin[s] = 0
      /\ \A t \in (s + 1)..(i - 1) : p[t].op \in Openers => c.end[t] \in (t + 1)..(i - 1)
  BY <1>2, TopIsInnermost
<1> DEFINE m == Len(c.stack)
<1>5. /\ m \in Nat /\ m \in 1..m /\ s = c.stack[m] /\ Len(d.stack) = m - 1
      /\ \A k \in 1..Len(d.stack) : d.stack[k] = c.stack[k]
  <2>1. c.stack \in Seq(1..Len(p))
    BY DEF Compiling
  <2>2. /\ Len(d.stack) = Len(c.stack) - 1 /\ \A k \in 1..Len(d.stack) : d.stack[k] = c.stack[k]
    BY <1>2, <2>1, PopIs DEF Ends
  <2>. QED  BY <1>2, <2>2, TopIs DEF Top
<1> HIDE DEF s
<1>6. /\ d.begin[i] = s /\ \A j \in 1..Len(p) : j # i => d.begin[j] = c.begin[j]
  BY <1>1, <1>2 DEF Lines
<1>7. /\ d.end[s] = i
      /\ \A j \in 1..Len(p) : j # s => d.end[j] = IF s < j /\ j < i /\ c.begin[j] = s THEN i ELSE c.end[j]
  BY <1>1, <1>2, <1>4
<1>8. \A t \in 1..Len(p) : p[t].op \in Openers /\ t # s => d.end[t] = c.end[t]
  BY <1>1, <1>4, <1>7 DEF Structure, Unset
<1>9. Stacked(p, i, d)
  <2>1. /\ m <= MaxNesting
        /\ \A k \in 1..m : c.stack[k] \in 1..(i - 1) /\ p[c.stack[k]].op \in Openers /\ c.end[c.stack[k]] = 0
        /\ \A k, l \in 1..m : k < l => c.stack[k] < c.stack[l]
        /\ \A t \in 1..(i - 1) : p[t].op \in Openers /\ c.end[t] = 0 => \E k \in 1..m : c.stack[k] = t
    BY DEF Structure, Stacked
  <2> HIDE DEF m
  <2>2. Len(d.stack) <= MaxNesting
    BY <1>5, <2>1, ProgramsAssumption
  <2>3. ASSUME NEW k \in 1..Len(d.stack)
        PROVE  d.stack[k] \in 1..i /\ p[d.stack[k]].op \in Openers /\ d.end[d.stack[k]] = 0
    <3>1. k \in 1..m /\ k < m /\ d.stack[k] = c.stack[k]
      BY <1>5
    <3>2. c.stack[k] < s
      BY <1>5, <2>1, <3>1
    <3>3. c.stack[k] \in 1..(i - 1) /\ p[c.stack[k]].op \in Openers /\ c.end[c.stack[k]] = 0
      BY <2>1, <3>1
    <3>4. c.stack[k] # s /\ c.stack[k] \in 1..i /\ c.stack[k] \in 1..Len(p)
      BY <1>1, <1>4, <3>2, <3>3
    <3>. QED  BY <1>8, <3>1, <3>3, <3>4
  <2>4. \A k, l \in 1..Len(d.stack) : k < l => d.stack[k] < d.stack[l]
    <3>1. 1..Len(d.stack) \subseteq 1..m
      BY <1>5
    <3>. QED  BY <1>5, <2>1, <3>1
  <2>5. ASSUME NEW t \in 1..i, p[t].op \in Openers, d.end[t] = 0
        PROVE  \E k \in 1..Len(d.stack) : d.stack[k] = t
    <3>1. t # s /\ t \in 1..(i - 1) /\ t \in 1..Len(p)
      BY <1>1, <1>3, <1>7, <2>5
    <3>2. PICK k \in 1..m : c.stack[k] = t
      BY <1>8, <2>1, <2>5, <3>1
    <3>3. k # m
      BY <1>5, <3>1, <3>2
    <3>4. k \in 1..Len(d.stack)
      BY <1>5, <3>3
    <3>. QED  BY <1>5, <3>2, <3>4
  <2>. QED  BY <2>2, <2>3, <2>4, <2>5 DEF Stacked
<1> HIDE DEF m
<1>10. Unset(p, i, d)
  BY <1>1, <1>2, <1>3, <1>4, <1>6, <1>7 DEF Structure, Unset
<1>11. OpenersPair(p, i, d)
  <2>1. ASSUME NEW t \in 1..i, p[t].op \in Openers, d.end[t] # 0
        PROVE  /\ d.end[t] \in (t + 1)..i /\ p[d.end[t]].op \in Closers
               /\ Matches(p[t].op, p[d.end[t]].op) /\ d.begin[d.end[t]] = t
    <3>1. CASE t = s
      BY <1>1, <1>2, <1>3, <1>4, <1>6, <1>7, <3>1
    <3>2. CASE t # s
      <4>1. t \in 1..(i - 1) /\ d.end[t] = c.end[t]
        BY <1>1, <1>3, <1>8, <2>1, <3>2
      <4>2. /\ c.end[t] \in (t + 1)..(i - 1) /\ p[c.end[t]].op \in Closers
            /\ Matches(p[t].op, p[c.end[t]].op) /\ c.begin[c.end[t]] = t
        BY <2>1, <4>1 DEF Structure, OpenersPair
      <4>. QED  BY <1>1, <1>6, <4>1, <4>2
    <3>. QED  BY <3>1, <3>2
  <2>. QED  BY <2>1 DEF OpenersPair
<1>12. ClosersPair(p, i, d)
  <2>1. ASSUME NEW e \in 1..i, p[e].op \in Closers
        PROVE  d.begin[e] \in 1..(e - 1) /\ p[d.begin[e]].op \in Openers /\ d.end[d.begin[e]] = e
    <3>1. CASE e = i
      BY <1>1, <1>4, <1>6, <1>7, <3>1
    <3>2. CASE e # i
      <4>1. e \in 1..(i - 1) /\ d.begin[e] = c.begin[e]
        BY <1>1, <1>6, <3>2
      <4>2. c.begin[e] \in 1..(e - 1) /\ p[c.begin[e]].op \in Openers /\ c.end[c.begin[e]] = e
        BY <2>1, <4>1 DEF Structure, ClosersPair
      <4>3. c.begin[e] # s /\ c.begin[e] \in 1..Len(p)
        BY <1>1, <1>4, <4>1, <4>2
      <4>. QED  BY <1>8, <4>1, <4>2, <4>3
    <3>. QED  BY <3>1, <3>2
  <2>. QED  BY <2>1 DEF ClosersPair
<1>13. Nested(p, i, d)
  <2>1. ASSUME NEW t \in 1..i, NEW u \in 1..i, p[t].op \in Openers, p[u].op \in Openers, t < u, d.end[t] # 0
        PROVE  d.end[t] < u \/ (d.end[u] # 0 /\ d.end[u] < d.end[t])
    <3>1. t \in 1..(i - 1) /\ u \in 1..(i - 1) /\ t \in 1..Len(p) /\ u \in 1..Len(p)
      BY <1>1, <1>3, <2>1
    <3>2. CASE t = s
      BY <1>1, <1>4, <1>7, <1>8, <2>1, <3>1, <3>2
    <3>3. CASE t # s
      <4>1. d.end[t] = c.end[t]
        BY <1>8, <2>1, <3>1, <3>3
      <4>2. c.end[t] < u \/ (c.end[u] # 0 /\ c.end[u] < c.end[t])
        BY <2>1, <3>1, <4>1 DEF Structure, Nested
      <4>3. CASE u = s
        BY <1>4, <4>1, <4>2, <4>3
      <4>4. CASE u # s
        BY <1>8, <2>1, <3>1, <4>1, <4>2, <4>4
      <4>. QED  BY <4>3, <4>4
    <3>. QED  BY <3>2, <3>3
  <2>. QED  BY <2>1 DEF Nested
<1>14. LoopsPair(p, i, d)
  <2>1. ASSUME NEW b \in 1..i, p[b].op \in {"break", "continue"}
        PROVE  /\ d.begin[b] \in 1..(b - 1) /\ p[d.begin[b]].op \in Loops /\ Around(d, d.begin[b], b)
               /\ \A l \in 1..(b - 1) : p[l].op \in Loops /\ Around(d, l, b) => l <= d.begin[b]
    <3>1. b \in 1..(i - 1) /\ d.begin[b] = c.begin[b] /\ b \in 1..Len(p)
      BY <1>1, <1>3, <1>6, <2>1
    <3>2. /\ c.begin[b] \in 1..(b - 1) /\ p[c.begin[b]].op \in Loops /\ Around(c, c.begin[b], b)
          /\ \A l \in 1..(b - 1) : p[l].op \in Loops /\ Around(c, l, b) => l <= c.begin[b]
      BY <2>1, <3>1 DEF Structure, LoopsPair
    <3>3. \A l \in 1..(b - 1) : p[l].op \in Loops => (Around(d, l, b) <=> Around(c, l, b))
      <4>1. ASSUME NEW l \in 1..(b - 1), p[l].op \in Loops
            PROVE  Around(d, l, b) <=> Around(c, l, b)
        <5>1. l \in 1..Len(p) /\ p[l].op \in Openers /\ l < b
          BY <1>1, <3>1, <4>1, Kinds
        <5>2. CASE l = s
          BY <1>1, <1>4, <1>7, <3>1, <5>1, <5>2 DEF Around
        <5>3. CASE l # s
          BY <1>8, <5>1, <5>3 DEF Around
        <5>. QED  BY <5>2, <5>3
      <4>. QED  BY <4>1
    <3>. QED  BY <3>1, <3>2, <3>3
  <2>. QED  BY <2>1 DEF LoopsPair
<1>15. BranchesPair(p, i, d)
  <2>1. ASSUME NEW k \in 1..i, p[k].op \in Branches
        PROVE  /\ d.begin[k] \in 1..(k - 1) /\ p[d.begin[k]].op = BelongsTo(p[k].op)
               /\ d.end[k] = d.end[d.begin[k]] /\ Around(d, d.begin[k], k)
               /\ \A t \in (d.begin[k] + 1)..(k - 1) : p[t].op \in Openers => d.end[t] \in 1..(k - 1)
               /\ p[k].op = "else" => d.otherwise[d.begin[k]] = k
    <3>1. k \in 1..(i - 1) /\ d.begin[k] = c.begin[k] /\ k \in 1..Len(p) /\ k # s
      BY <1>1, <1>3, <1>4, <1>6, <2>1, Kinds
    <3> DEFINE v == c.begin[k]
    <3>2. /\ v \in 1..(k - 1) /\ p[v].op = BelongsTo(p[k].op)
          /\ c.end[k] = c.end[v] /\ Around(c, v, k)
          /\ \A t \in (v + 1)..(k - 1) : p[t].op \in Openers => c.end[t] \in 1..(k - 1)
          /\ p[k].op = "else" => c.otherwise[v] = k
      BY <2>1, <3>1 DEF Structure, BranchesPair
    <3>3. v \in 1..Len(p) /\ v < k /\ k < i /\ p[v].op \in Openers
      BY <1>1, <2>1, <3>1, <3>2, Kinds
    <3>4. d.end[k] = d.end[v] /\ Around(d, v, k)
      <4>1. CASE v = s
        BY <1>7, <3>1, <3>3, <4>1 DEF Around
      <4>2. CASE v # s
        <5>1. d.end[v] = c.end[v]
          BY <1>8, <3>3, <4>2
        <5>2. d.end[k] = c.end[k]
          BY <1>7, <3>1, <4>2
        <5>. QED  BY <3>2, <5>1, <5>2 DEF Around
      <4>. QED  BY <4>1, <4>2
    <3>5. ASSUME NEW t \in (v + 1)..(k - 1), p[t].op \in Openers
          PROVE  d.end[t] \in 1..(k - 1)
      <4>1. c.end[t] \in 1..(k - 1) /\ t \in 1..Len(p)
        BY <1>1, <3>1, <3>2, <3>5
      <4>2. t # s
        BY <1>4, <4>1
      <4>. QED  BY <1>8, <3>5, <4>1, <4>2
    <3>. QED  BY <1>2, <3>1, <3>2, <3>4, <3>5
  <2>. QED  BY <2>1 DEF BranchesPair
<1>16. ElsesPair(p, i, d)
  BY <1>1, <1>2, <1>3, <1>6, Kinds DEF Structure, ElsesPair
<1>17. JumpsLand(p, i)
  BY <1>1, <1>3 DEF Structure, JumpsLand
<1>. QED  BY <1>9, <1>10, <1>11, <1>12, <1>13, <1>14, <1>15, <1>16, <1>17 DEF Structure

(* Every action that is accepted keeps the structure.                      *)
LEMMA AcceptKeeps ==
  ASSUME NEW p \in Seq(Acts), NEW i \in 1..Len(p), NEW c \in Compiling(p), NEW d \in Compiling(p),
         Structure(p, i - 1, c), Accepts(p, c, i, d)
  PROVE  Structure(p, i, d)
BY SkipKeeps, OpenKeeps, DivideKeeps, EndKeeps, LeaveKeeps DEF Accepts

-----------------------------------------------------------------------------
(* A run of the compiler.                                                  *)
Clean(p, i, c) == c \in Compiling(p) /\ (~c.error => Structure(p, i, c))

(* A run, step by step.                                                    *)
LEMMA RunStep ==
  ASSUME NEW p \in Seq(Acts), NEW r, Runs(p, Len(p), r)
  PROVE  r[0] = Nothing(p) /\ \A i \in 1..Len(p) : r[i] = CompileAction(p, r[i - 1], i)
<1>1. Len(p) \in Nat
  BY LenProperties
<1>2. r = [i \in 0..Len(p) |-> IF i = 0 THEN Nothing(p) ELSE CompileAction(p, r[i - 1], i)]
  BY DEF Runs
<1>3. r[0] = Nothing(p)
  BY <1>1, <1>2
<1>4. ASSUME NEW i \in 1..Len(p) PROVE r[i] = CompileAction(p, r[i - 1], i)
  <2>1. i \in 0..Len(p) /\ i # 0
    BY <1>1
  <2>. QED  BY <1>2, <2>1
<1>. QED  BY <1>3, <1>4

(* A rejection is final.                                                   *)
LEMMA RejectedStays ==
  ASSUME NEW p, NEW i, NEW c, c.error
  PROVE  CompileAction(p, c, i) = c
BY DEF CompileAction

(* What is not rejected is well structured all along.                      *)
LEMMA RunsClean ==
  ASSUME NEW p \in Seq(Acts), NEW r, Runs(p, Len(p), r)
  PROVE  /\ \A i \in 0..Len(p) : Clean(p, i, r[i])
         /\ \A i \in 1..Len(p) : ~r[i].error => ~r[i - 1].error
<1>1. Len(p) \in Nat
  BY LenProperties
<1>2. r[0] = Nothing(p) /\ \A i \in 1..Len(p) : r[i] = CompileAction(p, r[i - 1], i)
  BY RunStep
<1> DEFINE P == {i \in 0..Len(p) : Clean(p, i, r[i])}
<1>3. 0 \in P
  BY <1>1, <1>2, AtFirst DEF Clean
<1>4. ASSUME NEW i \in 1..Len(p), i - 1 \in P PROVE i \in P
  <2>1. r[i] = CompileAction(p, r[i - 1], i) /\ Clean(p, i - 1, r[i - 1])
    BY <1>2, <1>4
  <2> DEFINE c == r[i - 1]
             d == r[i]
  <2>2. d = CompileAction(p, c, i) /\ c \in Compiling(p) /\ (~c.error => Structure(p, i - 1, c))
    BY <2>1 DEF Clean
  <2> HIDE DEF c, d
  <2>3. CASE c.error
    <3>1. d = c
      BY <2>2, <2>3, RejectedStays
    <3>. QED  BY <1>1, <2>2, <2>3, <3>1 DEF Clean, d
  <2>4. CASE ~c.error
    <3>1. d \in Compiling(p) /\ (~d.error => Accepts(p, c, i, d))
      BY <2>2, <2>4, NotRejected
    <3>2. ~d.error => Structure(p, i, d)
      BY <2>2, <2>4, <3>1, AcceptKeeps
    <3>. QED  BY <1>1, <3>1, <3>2 DEF Clean, d
  <2>. QED  BY <2>3, <2>4
<1> HIDE DEF P
<1>5. 0..Len(p) \subseteq P
  BY <1>1, <1>3, <1>4, Induction
<1>6. ASSUME NEW i \in 1..Len(p), ~r[i].error PROVE ~r[i - 1].error
  BY <1>2, <1>6, RejectedStays
<1>. QED  BY <1>5, <1>6 DEF P

(* A step of a run that is not rejected.                                   *)
LEMMA RunAccepts ==
  ASSUME NEW p \in Seq(Acts), NEW r, Runs(p, Len(p), r), NEW i \in 1..Len(p), ~r[i].error
  PROVE  /\ r[i - 1] \in Compiling(p) /\ ~r[i - 1].error /\ Structure(p, i - 1, r[i - 1])
         /\ r[i] \in Compiling(p) /\ Structure(p, i, r[i])
         /\ r[i] = CompileAction(p, r[i - 1], i) /\ Accepts(p, r[i - 1], i, r[i])
<1>1. Len(p) \in Nat /\ i - 1 \in 0..Len(p) /\ i \in 0..Len(p)
  BY LenProperties
<1>2. Clean(p, i - 1, r[i - 1]) /\ Clean(p, i, r[i]) /\ ~r[i - 1].error
  BY <1>1, RunsClean
<1>3. /\ r[i - 1] \in Compiling(p) /\ ~r[i - 1].error /\ Structure(p, i - 1, r[i - 1])
      /\ r[i] \in Compiling(p) /\ Structure(p, i, r[i])
  BY <1>2 DEF Clean
<1>4. r[i] = CompileAction(p, r[i - 1], i)
  BY RunStep
<1>5. Accepts(p, r[i - 1], i, CompileAction(p, r[i - 1], i))
  BY <1>3, <1>4, NotRejected
<1>. QED  BY <1>3, <1>4, <1>5

-----------------------------------------------------------------------------
(* What compileFlow makes of a program it accepts.                         *)
WellPaired(p, f) ==
    /\ f.end \in Lines(p) /\ f.begin \in Lines(p) /\ f.otherwise \in Lines(p)
    /\ \A s \in 1..Len(p) : p[s].op \in Openers =>
         /\ f.end[s] \in (s + 1)..Len(p) /\ p[f.end[s]].op \in Closers
         /\ Matches(p[s].op, p[f.end[s]].op) /\ f.begin[f.end[s]] = s
    /\ \A e \in 1..Len(p) : p[e].op \in Closers =>
         /\ f.begin[e] \in 1..(e - 1) /\ p[f.begin[e]].op \in Openers /\ f.end[f.begin[e]] = e
    /\ \A s, t \in 1..Len(p) : /\ p[s].op \in Openers /\ p[t].op \in Openers
                               /\ s < t /\ t < f.end[s]
         => f.end[t] < f.end[s]
    /\ \A b \in 1..Len(p) : p[b].op \in {"break", "continue"} =>
         /\ f.begin[b] \in 1..(b - 1) /\ p[f.begin[b]].op \in Loops /\ b < f.end[f.begin[b]]
         /\ \A l \in 1..(b - 1) : p[l].op \in Loops /\ b < f.end[l] => l <= f.begin[b]
    /\ \A k \in 1..Len(p) : p[k].op \in Branches =>
         /\ f.begin[k] \in 1..(k - 1) /\ p[f.begin[k]].op = BelongsTo(p[k].op)
         /\ f.end[k] = f.end[f.begin[k]] /\ k < f.end[k]
         /\ \A t \in (f.begin[k] + 1)..(k - 1) : p[t].op \in Openers => f.end[t] < k
         /\ p[k].op = "else" => f.otherwise[f.begin[k]] = k
    /\ \A s \in 1..Len(p) : f.otherwise[s] # 0 =>
         /\ p[f.otherwise[s]].op = "else" /\ f.begin[f.otherwise[s]] = s
    /\ \A j \in 1..Len(p) : p[j].op = "jump" => p[j].n \in 1..Len(p)

(* The pairs compileFlow makes of a program it accepts.                    *)
LEMMA PairsWell ==
  ASSUME NEW p \in Seq(Acts), ~compileFlow(p).error
  PROVE  WellPaired(p, compileFlow(p))
<1>1. PICK r : Runs(p, Len(p), r) /\ compileFlow(p) = Finished(r[Len(p)])
  BY CompileRuns
<1>2. Len(p) \in Nat /\ DOMAIN p = 1..Len(p)
  BY LenProperties
<1> DEFINE c == r[Len(p)]
           f == compileFlow(p)
<1>3. Clean(p, Len(p), c)
  BY <1>1, <1>2, RunsClean
<1>4. f = Finished(c)
  BY <1>1
<1>5. ~f.error
  OBVIOUS
<1> HIDE DEF c, f
<1>6. c \in Compiling(p)
  BY <1>3 DEF Clean
<1>7. /\ f.end = c.end /\ f.begin = c.begin /\ f.otherwise = c.otherwise
      /\ ~c.error /\ c.stack = <<>>
  BY <1>4, <1>5, <1>6 DEF Finished, Compiling
<1>8. Structure(p, Len(p), c) /\ Len(c.stack) = 0
  BY <1>3, <1>7 DEF Clean
<1>9. f.end \in Lines(p) /\ f.begin \in Lines(p) /\ f.otherwise \in Lines(p)
  BY <1>6, <1>7 DEF Compiling
<1>10. \A s \in 1..Len(p) : p[s].op \in Openers => f.end[s] # 0
  BY <1>7, <1>8 DEF Structure, Stacked
<1>11. \A s \in 1..Len(p) : p[s].op \in Openers =>
         /\ f.end[s] \in (s + 1)..Len(p) /\ p[f.end[s]].op \in Closers
         /\ Matches(p[s].op, p[f.end[s]].op) /\ f.begin[f.end[s]] = s
  BY <1>7, <1>8, <1>10 DEF Structure, OpenersPair
<1>12. \A e \in 1..Len(p) : p[e].op \in Closers =>
         /\ f.begin[e] \in 1..(e - 1) /\ p[f.begin[e]].op \in Openers /\ f.end[f.begin[e]] = e
  BY <1>7, <1>8 DEF Structure, ClosersPair
<1>13. \A s, t \in 1..Len(p) : /\ p[s].op \in Openers /\ p[t].op \in Openers
                               /\ s < t /\ t < f.end[s]
         => f.end[t] < f.end[s]
  BY <1>2, <1>7, <1>8, <1>9, <1>10 DEF Structure, Nested, Lines
<1>14. \A b \in 1..Len(p) : p[b].op \in {"break", "continue"} =>
         /\ f.begin[b] \in 1..(b - 1) /\ p[f.begin[b]].op \in Loops /\ b < f.end[f.begin[b]]
         /\ \A l \in 1..(b - 1) : p[l].op \in Loops /\ b < f.end[l] => l <= f.begin[b]
  <2>1. ASSUME NEW b \in 1..Len(p), p[b].op \in {"break", "continue"}
        PROVE  /\ f.begin[b] \in 1..(b - 1) /\ p[f.begin[b]].op \in Loops /\ b < f.end[f.begin[b]]
               /\ \A l \in 1..(b - 1) : p[l].op \in Loops /\ b < f.end[l] => l <= f.begin[b]
    <3>1. /\ c.begin[b] \in 1..(b - 1) /\ p[c.begin[b]].op \in Loops /\ Around(c, c.begin[b], b)
          /\ \A l \in 1..(b - 1) : p[l].op \in Loops /\ Around(c, l, b) => l <= c.begin[b]
      BY <1>8, <2>1 DEF Structure, LoopsPair
    <3>2. f.end[c.begin[b]] # 0
      BY <1>2, <1>10, <3>1, Kinds
    <3>3. b < f.end[c.begin[b]]
      BY <1>7, <3>1, <3>2 DEF Around
    <3>4. \A l \in 1..(b - 1) : b < f.end[l] => Around(c, l, b)
      BY <1>2, <1>7 DEF Around
    <3>. QED  BY <1>7, <3>1, <3>3, <3>4
  <2>. QED  BY <2>1
<1>15. \A k \in 1..Len(p) : p[k].op \in Branches =>
         /\ f.begin[k] \in 1..(k - 1) /\ p[f.begin[k]].op = BelongsTo(p[k].op)
         /\ f.end[k] = f.end[f.begin[k]] /\ k < f.end[k]
         /\ \A t \in (f.begin[k] + 1)..(k - 1) : p[t].op \in Openers => f.end[t] < k
         /\ p[k].op = "else" => f.otherwise[f.begin[k]] = k
  <2>1. ASSUME NEW k \in 1..Len(p), p[k].op \in Branches
        PROVE  /\ f.begin[k] \in 1..(k - 1) /\ p[f.begin[k]].op = BelongsTo(p[k].op)
               /\ f.end[k] = f.end[f.begin[k]] /\ k < f.end[k]
               /\ \A t \in (f.begin[k] + 1)..(k - 1) : p[t].op \in Openers => f.end[t] < k
               /\ p[k].op = "else" => f.otherwise[f.begin[k]] = k
    <3>1. /\ c.begin[k] \in 1..(k - 1) /\ p[c.begin[k]].op = BelongsTo(p[k].op)
          /\ c.end[k] = c.end[c.begin[k]] /\ Around(c, c.begin[k], k)
          /\ \A t \in (c.begin[k] + 1)..(k - 1) : p[t].op \in Openers => c.end[t] \in 1..(k - 1)
          /\ p[k].op = "else" => c.otherwise[c.begin[k]] = k
      BY <1>8, <2>1 DEF Structure, BranchesPair
    <3>2. f.end[c.begin[k]] # 0
      BY <1>2, <1>10, <2>1, <3>1, Kinds
    <3>3. k < f.end[k]
      BY <1>7, <3>1, <3>2 DEF Around
    <3>. QED  BY <1>2, <1>7, <3>1, <3>3
  <2>. QED  BY <2>1
<1>16. \A s \in 1..Len(p) : f.otherwise[s] # 0 =>
         /\ p[f.otherwise[s]].op = "else" /\ f.begin[f.otherwise[s]] = s
  BY <1>7, <1>8 DEF Structure, ElsesPair
<1>17. \A j \in 1..Len(p) : p[j].op = "jump" => p[j].n \in 1..Len(p)
  BY <1>2, <1>8 DEF Structure, JumpsLand
<1>. QED  BY <1>9, <1>11, <1>12, <1>13, <1>14, <1>15, <1>16, <1>17 DEF WellPaired, f

-----------------------------------------------------------------------------
(* Where the program counter goes from line x.                             *)
Move(p, f, x, y) ==
    \/ y = x
    \/ y = x + 1 /\ p[x].op \notin Branches \cup {"endloop", "break", "continue"}
    \/ p[x].op \in Openers /\ y = f.end[x] + 1
    \/ p[x].op = "endloop" /\ y = f.begin[x]
    \/ p[x].op = "break" /\ y = f.end[f.begin[x]] + 1
    \/ p[x].op = "continue" /\ y = f.end[f.begin[x]]
    \/ p[x].op \in Branches /\ y = f.end[x] + 1
    \/ p[x].op = "if" /\ f.otherwise[x] # 0 /\ y = f.otherwise[x] + 1
    \/ \E k \in 1..Len(p) : f.begin[k] = x /\ p[k].op = "case" /\ y = k + 1
    \/ p[x].op = "jump" /\ y = p[x].n

(* Of two blocks, one of which ends inside the other, one is inside.       *)
LEMMA Apart ==
  ASSUME NEW p \in Seq(Acts), NEW f, WellPaired(p, f)
  PROVE  \A s, t \in 1..Len(p) : p[s].op \in Openers /\ p[t].op \in Openers =>
         /\ s < f.end[s] /\ t < f.end[t] /\ f.end[s] \in 1..Len(p) /\ f.end[t] \in 1..Len(p)
         /\ f.end[s] # t /\ f.end[t] # s
         /\ s < t /\ t < f.end[s] => f.end[t] < f.end[s]
         /\ t < s /\ s < f.end[t] => f.end[s] < f.end[t]
<1>1. Len(p) \in Nat
  BY LenProperties
<1>2. ASSUME NEW s \in 1..Len(p), p[s].op \in Openers
      PROVE  s < f.end[s] /\ f.end[s] \in 1..Len(p) /\ p[f.end[s]].op \in Closers
  <2>1. f.end[s] \in (s + 1)..Len(p) /\ p[f.end[s]].op \in Closers
    BY <1>2 DEF WellPaired
  <2>. QED  BY <1>1, <2>1
<1>3. \A s, t \in 1..Len(p) : p[s].op \in Openers /\ p[t].op \in Openers /\ s < t /\ t < f.end[s]
         => f.end[t] < f.end[s]
  BY DEF WellPaired
<1>4. \A s, t \in 1..Len(p) : p[s].op \in Openers /\ p[t].op \in Openers => f.end[s] # t
  BY <1>2, Kinds
<1>. QED  BY <1>2, <1>3, <1>4

(* The line a branch of a block is at, seen from another block.            *)
LEMMA BranchApart ==
  ASSUME NEW p \in Seq(Acts), NEW f, WellPaired(p, f)
  PROVE  \A k \in 1..Len(p) : p[k].op \in Branches =>
         /\ f.begin[k] \in 1..Len(p) /\ f.begin[k] < k /\ p[f.begin[k]].op = BelongsTo(p[k].op)
         /\ p[f.begin[k]].op \in Openers /\ p[f.begin[k]].op \notin Loops
         /\ f.end[k] = f.end[f.begin[k]] /\ k < f.end[f.begin[k]]
         /\ p[k].op = "else" => f.otherwise[f.begin[k]] = k
         /\ \A t \in 1..Len(p) : p[t].op \in Openers =>
              k # t /\ k # f.end[t] /\ (f.begin[k] < t /\ t < k => f.end[t] < k)
<1>1. Len(p) \in Nat
  BY LenProperties
<1>2. ASSUME NEW k \in 1..Len(p), p[k].op \in Branches
      PROVE  /\ f.begin[k] \in 1..(k - 1) /\ p[f.begin[k]].op = BelongsTo(p[k].op)
             /\ f.end[k] = f.end[f.begin[k]] /\ k < f.end[k]
             /\ \A u \in (f.begin[k] + 1)..(k - 1) : p[u].op \in Openers => f.end[u] < k
             /\ p[k].op = "else" => f.otherwise[f.begin[k]] = k
  BY <1>2 DEF WellPaired
<1>3. ASSUME NEW k \in 1..Len(p), p[k].op \in Branches
      PROVE  p[f.begin[k]].op \in Openers /\ p[f.begin[k]].op \notin Loops
  BY <1>2, <1>3, Kinds
<1>4. ASSUME NEW k \in 1..Len(p), p[k].op \in Branches, NEW t \in 1..Len(p), p[t].op \in Openers
      PROVE  k # t /\ k # f.end[t]
  <2>1. p[f.end[t]].op \in Closers
    BY <1>4 DEF WellPaired
  <2>. QED  BY <1>4, <2>1, Kinds
<1>5. ASSUME NEW k \in 1..Len(p), p[k].op \in Branches
      PROVE  f.begin[k] \in 1..Len(p) /\ f.begin[k] < k
  BY <1>1, <1>2, <1>5
<1>6. ASSUME NEW k \in 1..Len(p), p[k].op \in Branches, NEW t \in 1..Len(p), p[t].op \in Openers,
             f.begin[k] < t, t < k
      PROVE  f.end[t] < k
  <2>1. t \in (f.begin[k] + 1)..(k - 1)
    BY <1>1, <1>5, <1>6
  <2>. QED  BY <1>2, <1>6, <2>1
<1>. QED  BY <1>2, <1>3, <1>4, <1>5, <1>6

(* The else of a block.                                                    *)
LEMMA ElseApart ==
  ASSUME NEW p \in Seq(Acts), NEW f, WellPaired(p, f)
  PROVE  \A i \in 1..Len(p) : f.otherwise[i] # 0 =>
         /\ f.otherwise[i] \in 1..Len(p) /\ p[f.otherwise[i]].op = "else"
         /\ p[f.otherwise[i]].op \in Branches /\ f.begin[f.otherwise[i]] = i
<1>1. f.otherwise \in Lines(p)
  BY DEF WellPaired
<1>2. \A i \in 1..Len(p) : f.otherwise[i] \in 0..Len(p) /\ Len(p) \in Nat
  BY <1>1, LenProperties DEF Lines
<1>3. \A i \in 1..Len(p) : f.otherwise[i] # 0 =>
        p[f.otherwise[i]].op = "else" /\ f.begin[f.otherwise[i]] = i
  BY DEF WellPaired
<1>. QED  BY <1>2, <1>3 DEF Branches

(* The loop of a break or a continue.                                      *)
LEMMA LoopApart ==
  ASSUME NEW p \in Seq(Acts), NEW f, WellPaired(p, f)
  PROVE  \A b \in 1..Len(p) : p[b].op \in {"break", "continue"} =>
         /\ f.begin[b] \in 1..Len(p) /\ f.begin[b] < b /\ b < f.end[f.begin[b]]
         /\ p[f.begin[b]].op \in Loops /\ p[f.begin[b]].op \in Openers
         /\ \A l \in 1..Len(p) : p[l].op \in Loops /\ l < b /\ b < f.end[l] => l <= f.begin[b]
<1>1. Len(p) \in Nat
  BY LenProperties
<1>2. ASSUME NEW b \in 1..Len(p), p[b].op \in {"break", "continue"}
      PROVE  /\ f.begin[b] \in 1..(b - 1) /\ p[f.begin[b]].op \in Loops /\ b < f.end[f.begin[b]]
             /\ \A l \in 1..(b - 1) : p[l].op \in Loops /\ b < f.end[l] => l <= f.begin[b]
  BY <1>2 DEF WellPaired
<1>3. ASSUME NEW b \in 1..Len(p), NEW l \in 1..Len(p), l < b
      PROVE  l \in 1..(b - 1)
  BY <1>1, <1>3
<1>4. \A b \in 1..Len(p) : p[b].op \in {"break", "continue"} => f.begin[b] \in 1..Len(p) /\ f.begin[b] < b
  BY <1>1, <1>2
<1>. QED  BY <1>2, <1>3, <1>4, Kinds

(* The two ends of a loop.                                                 *)
LEMMA LoopEnds ==
  ASSUME NEW p \in Seq(Acts), NEW f, WellPaired(p, f)
  PROVE  /\ \A e \in 1..Len(p) : p[e].op = "endloop" =>
              /\ f.begin[e] \in 1..Len(p) /\ f.begin[e] < e /\ p[f.begin[e]].op \in Openers
              /\ f.end[f.begin[e]] = e
         /\ \A l \in 1..Len(p) : p[l].op \in Loops => p[f.end[l]].op = "endloop" /\ f.begin[f.end[l]] = l
<1>1. Len(p) \in Nat
  BY LenProperties
<1>2. \A e \in 1..Len(p) : p[e].op = "endloop" =>
        f.begin[e] \in 1..(e - 1) /\ p[f.begin[e]].op \in Openers /\ f.end[f.begin[e]] = e
  BY DEF WellPaired, Closers
<1>3. \A l \in 1..Len(p) : p[l].op \in Loops => Matches(p[l].op, p[f.end[l]].op) /\ f.begin[f.end[l]] = l
  BY Kinds DEF WellPaired
<1>. QED  BY <1>1, <1>2, <1>3 DEF Matches, Loops
(* No move leaves the program by more than its end.                        *)
LEMMA MoveLands ==
  ASSUME NEW p \in Seq(Acts), NEW f, WellPaired(p, f),
         NEW x \in 1..Len(p), NEW y, Move(p, f, x, y)
  PROVE  y \in 1..(Len(p) + 1)
<1>1. Len(p) \in Nat
  BY LenProperties
<1>2. \A s \in 1..Len(p) : p[s].op \in Openers => f.end[s] \in 1..Len(p)
  BY Apart
<1>3. \A k \in 1..Len(p) : p[k].op \in Branches => f.end[k] \in 1..Len(p)
  BY <1>2, BranchApart
<1>4. p[x].op \in {"break", "continue"} => f.end[f.begin[x]] \in 1..Len(p)
  BY <1>2, LoopApart
<1>5. p[x].op = "endloop" => f.begin[x] \in 1..Len(p)
  BY LoopEnds
<1>6. p[x].op = "jump" => p[x].n \in 1..Len(p)
  BY DEF WellPaired
<1>7. f.otherwise[x] # 0 => f.otherwise[x] \in 1..Len(p)
  BY ElseApart
<1>8. CASE \E k \in 1..Len(p) : f.begin[k] = x /\ p[k].op = "case" /\ y = k + 1
  BY <1>1, <1>8
<1>9. CASE y \in {x, x + 1}
  BY <1>1, <1>9
<1>10. CASE \/ p[x].op \in Openers \cup Branches /\ y = f.end[x] + 1
            \/ p[x].op = "endloop" /\ y = f.begin[x]
            \/ p[x].op = "break" /\ y = f.end[f.begin[x]] + 1
            \/ p[x].op = "continue" /\ y = f.end[f.begin[x]]
            \/ f.otherwise[x] # 0 /\ y = f.otherwise[x] + 1
            \/ p[x].op = "jump" /\ y = p[x].n
  BY <1>1, <1>2, <1>3, <1>4, <1>5, <1>6, <1>7, <1>10
<1>. QED  BY <1>8, <1>9, <1>10 DEF Move

Within(f, t, x) == t < x /\ x <= f.end[t]

(* Into a loop control comes by its first line, and out of it through that *)
(* line or by a break.                                                     *)
LEMMA ComesIn ==
  ASSUME NEW p \in Seq(Acts), NEW f, WellPaired(p, f),
         NEW x \in 1..Len(p), NEW y, Move(p, f, x, y), p[x].op # "jump",
         NEW t \in 1..Len(p), p[t].op \in Loops, Within(f, t, y), x # t
  PROVE  Within(f, t, x)
<1>1. /\ Len(p) \in Nat /\ p[t].op \in Openers /\ y \in 1..(Len(p) + 1)
      /\ t < f.end[t] /\ f.end[t] \in 1..Len(p) /\ t < y /\ y <= f.end[t]
  BY LenProperties, MoveLands, Kinds, Apart DEF Within
<1>2. \A s \in 1..Len(p) : p[s].op \in Openers =>
         /\ s < f.end[s] /\ f.end[s] \in 1..Len(p) /\ f.end[s] # t /\ f.end[t] # s
         /\ (s < t /\ t < f.end[s] => f.end[t] < f.end[s])
         /\ (t < s /\ s < f.end[t] => f.end[s] < f.end[t])
  BY <1>1, Apart
<1>3. CASE y = x
  BY <1>3
<1>4. CASE y = x + 1
  BY <1>1, <1>4 DEF Within
<1>5. CASE p[x].op \in Openers /\ y = f.end[x] + 1
  BY <1>1, <1>2, <1>5 DEF Within
<1>6. CASE p[x].op = "endloop" /\ y = f.begin[x]
  <2> DEFINE s == f.begin[x]
  <2>1. s \in 1..Len(p) /\ s < x /\ p[s].op \in Openers /\ f.end[s] = x
    BY <1>6, LoopEnds
  <2>2. y = s
    BY <1>6
  <2> HIDE DEF s
  <2>. QED  BY <1>1, <1>2, <2>1, <2>2 DEF Within
<1>7. CASE p[x].op \in {"break", "continue"} /\ y \in {f.end[f.begin[x]] + 1, f.end[f.begin[x]]}
  <2> DEFINE l == f.begin[x]
  <2>1. l \in 1..Len(p) /\ l < x /\ x < f.end[l] /\ p[l].op \in Openers
    BY <1>7, LoopApart
  <2>2. y \in {f.end[l] + 1, f.end[l]}
    BY <1>7
  <2> HIDE DEF l
  <2>3. /\ l < f.end[l] /\ f.end[l] \in 1..Len(p) /\ f.end[l] # t /\ f.end[t] # l
        /\ (l < t /\ t < f.end[l] => f.end[t] < f.end[l])
        /\ (t < l /\ l < f.end[t] => f.end[l] < f.end[t])
    BY <1>2, <2>1
  <2>. QED  BY <1>1, <2>1, <2>2, <2>3, SMTT(30) DEF Within
<1>8. CASE p[x].op \in Branches /\ y = f.end[x] + 1
  <2> DEFINE s == f.begin[x]
  <2>1. s \in 1..Len(p) /\ s < x /\ x < f.end[s] /\ p[s].op \in Openers /\ y = f.end[s] + 1
    BY <1>8, BranchApart
  <2> HIDE DEF s
  <2>. QED  BY <1>1, <1>2, <2>1, SMTT(30) DEF Within
<1>9. ASSUME NEW k \in 1..Len(p), p[k].op \in Branches, f.begin[k] = x, y = k + 1
      PROVE  Within(f, t, x)
  <2>1. /\ x < k /\ p[x].op \in Openers /\ k < f.end[x] /\ k # t /\ k # f.end[t]
        /\ (x < t /\ t < k => f.end[t] < k)
    BY <1>1, <1>9, BranchApart
  <2>. QED  BY <1>1, <1>2, <1>9, <2>1 DEF Within
<1>10. ASSUME f.otherwise[x] # 0, y = f.otherwise[x] + 1
       PROVE  Within(f, t, x)
  BY <1>9, <1>10, ElseApart
<1>. QED  BY <1>3, <1>4, <1>5, <1>6, <1>7, <1>8, <1>9, <1>10 DEF Move, Branches

(* A step that is no jump stays in a loop, goes to its head, or breaks it. *)
LEMMA GoesOut ==
  ASSUME NEW p \in Seq(Acts), NEW f, WellPaired(p, f),
         NEW x \in 1..Len(p), NEW y, Move(p, f, x, y), p[x].op # "jump",
         NEW t \in 1..Len(p), p[t].op \in Loops, Within(f, t, x)
  PROVE  Within(f, t, y) \/ y = t \/ (p[x].op = "break" /\ f.begin[x] = t)
<1>1. /\ Len(p) \in Nat /\ p[t].op \in Openers /\ y \in 1..(Len(p) + 1)
      /\ t < f.end[t] /\ f.end[t] \in 1..Len(p) /\ t < x /\ x <= f.end[t]
      /\ p[f.end[t]].op = "endloop" /\ f.begin[f.end[t]] = t
  BY LenProperties, MoveLands, Kinds, Apart, LoopEnds DEF Within
<1>2. \A s \in 1..Len(p) : p[s].op \in Openers =>
         /\ s < f.end[s] /\ f.end[s] \in 1..Len(p) /\ f.end[s] # t /\ f.end[t] # s
         /\ (s < t /\ t < f.end[s] => f.end[t] < f.end[s])
         /\ (t < s /\ s < f.end[t] => f.end[s] < f.end[t])
  BY <1>1, Apart
<1>3. CASE y = x
  BY <1>3
<1>4. CASE y = x + 1 /\ p[x].op # "endloop"
  BY <1>1, <1>4 DEF Within
<1>5. CASE p[x].op \in Openers /\ y = f.end[x] + 1
  BY <1>1, <1>2, <1>5 DEF Within
<1>6. CASE p[x].op = "endloop" /\ y = f.begin[x]
  <2> DEFINE s == f.begin[x]
  <2>1. s \in 1..Len(p) /\ s < x /\ p[s].op \in Openers /\ f.end[s] = x
    BY <1>6, LoopEnds
  <2>2. y = s /\ (x = f.end[t] => s = t)
    BY <1>1, <1>6
  <2> HIDE DEF s
  <2>. QED  BY <1>1, <1>2, <2>1, <2>2 DEF Within
<1>7. CASE \/ p[x].op = "break" /\ y = f.end[f.begin[x]] + 1
           \/ p[x].op = "continue" /\ y = f.end[f.begin[x]]
  <2> DEFINE l == f.begin[x]
  <2>1. /\ l \in 1..Len(p) /\ l < x /\ x < f.end[l] /\ p[l].op \in Openers
        /\ (x < f.end[t] => t <= l)
    BY <1>1, <1>7, LoopApart
  <2>2. (y = f.end[l] + 1 /\ p[x].op = "break") \/ y = f.end[l]
    BY <1>7
  <2>3. x # f.end[t]
    BY <1>1, <1>7
  <2>4. SUFFICES ASSUME ~(p[x].op = "break" /\ l = t) PROVE Within(f, t, y)
    OBVIOUS
  <2> HIDE DEF l
  <2>5. /\ l < f.end[l] /\ f.end[l] \in 1..Len(p) /\ f.end[l] # t /\ f.end[t] # l
        /\ (t < l /\ l < f.end[t] => f.end[l] < f.end[t])
    BY <1>2, <2>1
  <2>6. CASE t = l
    BY <1>1, <2>1, <2>2, <2>4, <2>5, <2>6 DEF Within
  <2>7. CASE t < l
    BY <1>1, <2>1, <2>2, <2>3, <2>5, <2>7 DEF Within
  <2>. QED  BY <1>1, <2>1, <2>3, <2>6, <2>7
<1>8. CASE p[x].op \in Branches /\ y = f.end[x] + 1
  <2> DEFINE s == f.begin[x]
  <2>1. /\ s \in 1..Len(p) /\ s < x /\ x < f.end[s] /\ p[s].op \in Openers /\ y = f.end[s] + 1
        /\ p[s].op \notin Loops /\ x # f.end[t] /\ (s < t /\ t < x => f.end[t] < x)
    BY <1>1, <1>8, BranchApart
  <2>2. s # t
    BY <2>1
  <2> HIDE DEF s
  <2>. QED  BY <1>1, <1>2, <2>1, <2>2 DEF Within
<1>9. ASSUME NEW k \in 1..Len(p), p[k].op \in Branches, f.begin[k] = x, y = k + 1
      PROVE  Within(f, t, y)
  <2>1. /\ x < k /\ p[x].op \in Openers /\ k < f.end[x] /\ k # t /\ k # f.end[t]
        /\ (x < t /\ t < k => f.end[t] < k)
    BY <1>1, <1>9, BranchApart
  <2>2. f.end[x] < f.end[t] /\ f.end[x] \in 1..Len(p)
    BY <1>1, <1>2, <2>1
  <2> DEFINE u == f.end[x]
             v == f.end[t]
  <2>3. /\ k < u /\ u < v /\ t < x /\ x < k /\ y = k + 1
        /\ k \in Int /\ u \in Int /\ v \in Int /\ t \in Int /\ x \in Int
    BY <1>1, <1>9, <2>1, <2>2
  <2> HIDE DEF u, v
  <2>4. t < y /\ y <= v
    BY <2>3
  <2>. QED  BY <2>4 DEF Within, v
<1>10. ASSUME f.otherwise[x] # 0, y = f.otherwise[x] + 1
       PROVE  Within(f, t, y)
  BY <1>9, <1>10, ElseApart
<1>. QED  BY <1>3, <1>4, <1>5, <1>6, <1>7, <1>8, <1>9, <1>10 DEF Move, Branches

(* What does not jump does not pass from one side of an else to the other. *)
LEMMA KeepsToItsBranch ==
  ASSUME NEW p \in Seq(Acts), NEW f, WellPaired(p, f),
         NEW x \in 1..Len(p), NEW y, Move(p, f, x, y), p[x].op # "jump",
         NEW i \in 1..Len(p), NEW e, e = f.otherwise[i], e # 0, i < x, x <= e
  PROVE  ~(e < y /\ y < f.end[i])
<1>1. /\ Len(p) \in Nat /\ e \in 1..Len(p) /\ p[e].op = "else" /\ p[e].op \in Branches
      /\ f.begin[e] = i /\ y \in 1..(Len(p) + 1)
  BY LenProperties, MoveLands, ElseApart
<1>2. x \in Nat /\ i \in Nat
  BY <1>1
<1>3. p[x].op = "else" /\ f.begin[x] = i => x = e
  <2>1. p[x].op = "else" => f.otherwise[f.begin[x]] = x
    BY BranchApart DEF Branches
  <2>. QED  BY <2>1
<1>4. /\ i < e /\ p[i].op = "if" /\ p[i].op \in Openers /\ e < f.end[i] /\ f.end[i] \in 1..Len(p)
      /\ \A t \in 1..Len(p) : p[t].op \in Openers /\ i < t /\ t < e => f.end[t] < e
      /\ \A t \in 1..Len(p) : p[t].op \in Openers => e # t
  <2>1. i < e /\ p[i].op = BelongsTo("else") /\ p[i].op \in Openers /\ e < f.end[i]
    BY <1>1, BranchApart, SMTT(30)
  <2>2. \A t \in 1..Len(p) : p[t].op \in Openers => e # t /\ (i < t /\ t < e => f.end[t] < e)
    BY <1>1, BranchApart
  <2>3. f.end[i] \in 1..Len(p)
    BY <2>1, Apart
  <2>. QED  BY <2>1, <2>2, <2>3 DEF BelongsTo
<1>5. \A s \in 1..Len(p) : p[s].op \in Openers =>
         /\ s < f.end[s] /\ f.end[s] \in 1..Len(p)
         /\ (s < i /\ i < f.end[s] => f.end[i] < f.end[s])
  BY <1>4, Apart
<1>6. CASE y = x
  BY <1>1, <1>2, <1>6
<1>7. CASE y = x + 1 /\ p[x].op \notin Branches
  <2>1. x # e
    BY <1>1, <1>7
  <2>. QED  BY <1>1, <1>2, <1>7, <2>1
<1>8. CASE p[x].op \in Openers /\ y = f.end[x] + 1
  <2>1. f.end[x] < e /\ f.end[x] \in 1..Len(p)
    BY <1>1, <1>4, <1>5, <1>8
  <2>. QED  BY <1>1, <1>8, <2>1
<1>9. CASE p[x].op = "endloop" /\ y = f.begin[x]
  <2>1. f.begin[x] \in 1..Len(p) /\ f.begin[x] < x
    BY <1>9, LoopEnds
  <2>. QED  BY <1>1, <1>2, <1>9, <2>1
<1>10. CASE p[x].op \in {"break", "continue"} /\ y \in {f.end[f.begin[x]] + 1, f.end[f.begin[x]]}
  <2> DEFINE l == f.begin[x]
  <2>1. l \in 1..Len(p) /\ l < x /\ p[l].op \in Loops /\ p[l].op \in Openers /\ x < f.end[l]
    BY <1>10, LoopApart
  <2>2. l # i
    BY <1>4, <2>1 DEF Loops
  <2>3. y \in {f.end[l] + 1, f.end[l]}
    BY <1>10
  <2> HIDE DEF l
  <2>4. l < f.end[l] /\ f.end[l] \in 1..Len(p) /\ (l < i /\ i < f.end[l] => f.end[i] < f.end[l])
    BY <1>5, <2>1
  <2>5. CASE l < i
    BY <1>1, <1>2, <1>4, <2>1, <2>3, <2>4, <2>5, SMTT(30)
  <2>6. CASE i < l
    <3>1. f.end[l] < e
      BY <1>1, <1>2, <1>4, <2>1, <2>6
    <3>. QED  BY <1>1, <2>3, <2>4, <3>1
  <2>. QED  BY <1>2, <2>1, <2>2, <2>5, <2>6
<1>11. CASE p[x].op \in Branches /\ y = f.end[x] + 1
  <2> DEFINE s == f.begin[x]
  <2>1. /\ s \in 1..Len(p) /\ s < x /\ p[s].op = BelongsTo(p[x].op) /\ p[s].op \in Openers
        /\ y = f.end[s] + 1 /\ x < f.end[s]
    BY <1>11, BranchApart
  <2>2. s < i /\ i < x => f.end[i] < x
    BY <1>4, <1>11, BranchApart
  <2>3. s = i => x = e
    <3>1. s = i => p[x].op = "else"
      BY <1>4, <1>11, <2>1 DEF BelongsTo, Branches
    <3>. QED  BY <1>3, <3>1
  <2> HIDE DEF s
  <2>4. f.end[s] \in 1..Len(p)
    BY <1>5, <2>1
  <2>5. CASE s = i
    BY <1>1, <2>1, <2>4, <2>5
  <2>6. CASE s < i
    BY <1>1, <1>2, <1>4, <2>1, <2>2, <2>6
  <2>7. CASE i < s
    <3>1. f.end[s] < e
      BY <1>1, <1>2, <1>4, <2>1, <2>7
    <3>. QED  BY <1>1, <2>1, <2>4, <3>1
  <2>. QED  BY <1>2, <2>1, <2>5, <2>6, <2>7
<1>12. ASSUME NEW k \in 1..Len(p), p[k].op \in Branches, f.begin[k] = x, y = k + 1
       PROVE  ~(e < y /\ y < f.end[i])
  <2>1. p[x].op \in Openers /\ k < f.end[x]
    BY <1>12, BranchApart
  <2>2. f.end[x] < e /\ f.end[x] \in 1..Len(p)
    BY <1>1, <1>2, <1>4, <1>5, <2>1
  <2>. QED  BY <1>1, <1>12, <2>1, <2>2
<1>13. ASSUME f.otherwise[x] # 0, y = f.otherwise[x] + 1
       PROVE  ~(e < y /\ y < f.end[i])
  BY <1>12, <1>13, ElseApart
<1>. QED  BY <1>6, <1>7, <1>8, <1>9, <1>10, <1>11, <1>12, <1>13 DEF Move, Branches

-----------------------------------------------------------------------------
(* Where a script stands.  A loop over targets is under way exactly while  *)
(* its counter is not 0; the outermost one under way keeps the target the  *)
(* flow started with.                                                      *)
Lined(i) == i \in 1..Len(program)
Aimer(i) == i \in 1..Len(program) /\ program[i].op = "foreach"

Values ==
    /\ program \in Programs /\ flow = compileFlow(program)
    /\ pc \in 1..(Len(program) + 1) /\ target \in 0..MaxTargets /\ failed \in BOOLEAN
    /\ counters \in [1..Len(program) -> Nat] /\ passes = counters
    /\ targetIds \in [1..Len(program) -> 0..MaxTargets]
    /\ saved \in [1..Len(program) -> {None} \cup 0..MaxTargets]

Counts ==
    /\ \A i \in 1..Len(program) :
         /\ program[i].op = "loop" => counters[i] <= program[i].n
         /\ Aimer(i) => counters[i] <= targetIds[i]
         /\ saved[i] # None <=> Aimer(i) /\ counters[i] > 0
    /\ LoopsRunTheirCount

NoJumps == ~flow.error /\ \A i \in 1..Len(program) : program[i].op # "jump"
Aims ==
    NoJumps =>
    /\ \A t \in 1..Len(program) : Aimer(t) =>
         /\ Within(flow, t, pc) => counters[t] > 0
         /\ counters[t] > 0 => Within(flow, t, pc) \/ pc = t
    /\ (\A t \in 1..Len(program) : Aimer(t) => counters[t] = 0) => target = 0
    /\ \A t \in 1..Len(program) :
         /\ Aimer(t) /\ counters[t] > 0
         /\ \A s \in 1..Len(program) : Aimer(s) /\ s < t => counters[s] = 0
         => saved[t] = 0

FlowInv == Values /\ Counts /\ Aims

(* What a step does to the counters and the target.                        *)
Moved == /\ ~flow.error /\ ~failed /\ pc \in 1..Len(program)
         /\ program' = program /\ flow' = flow /\ failed' \in BOOLEAN
         /\ Move(program, flow, pc, pc')
Passes   == program[pc].op # "break" /\ ~Aimer(pc) /\ Same
Forgets  == /\ ~Aimer(pc) /\ UNCHANGED left
            /\ \/ program[pc].op = "retry" /\ Forget(pc)
               \/ program[pc].op = "break" /\ Forget(flow.begin[pc]) /\ pc' = flow.end[flow.begin[pc]] + 1
RunsOut  == /\ program[pc].op = "loop" /\ counters[pc] >= program[pc].n /\ Forget(pc)
            /\ left' = [loop |-> pc, passes |-> passes[pc], size |-> program[pc].n]
Repeats  == /\ program[pc].op \in {"loop", "retry"} /\ UNCHANGED aimed /\ UNCHANGED left
            /\ program[pc].op = "loop" => counters[pc] < program[pc].n
            /\ counters' = [counters EXCEPT ![pc] = @ + 1]
            /\ passes' = [passes EXCEPT ![pc] = @ + 1]

(* What a step of the script does to the program counter and the counts.   *)
LEMMA StepMoves ==
  ASSUME Values, Step
  PROVE  Moved /\ (Passes \/ Forgets \/ RunsOut \/ Repeats \/ ForTargets)
<1>1. /\ program \in Seq(Acts) /\ DOMAIN program = 1..Len(program) /\ Len(program) \in Nat
      /\ pc \in 1..(Len(program) + 1) /\ failed \in BOOLEAN
  BY ProgramsAssumption, LenProperties DEF Values
<1>2. \A op : At(op) => ~flow.error /\ ~failed /\ pc \in 1..Len(program) /\ program[pc].op = op
  BY <1>1 DEF At
<1>3. CASE Loop
  <2>1. At("loop")
    BY <1>3 DEF Loop
  <2>2. CASE counters[pc] >= program[pc].n /\ LeaveByCount(program[pc].n)
    BY <1>1, <1>2, <2>1, <2>2 DEF LeaveByCount, Goto, Moved, Move, RunsOut, Openers, Loops
  <2>3. CASE counters[pc] < program[pc].n /\ Counted /\ UNCHANGED aimed
    BY <1>1, <1>2, <2>1, <2>3 DEF Counted, Goto, Moved, Move, Repeats, Branches
  <2>. QED  BY <1>3, <2>2, <2>3 DEF Loop
<1>4. CASE While
  BY <1>1, <1>2, <1>4 DEF While, Goto, Moved, Move, Passes, Aimer, Openers, Loops, Branches
<1>5. CASE Retry
  <2>1. At("retry")
    BY <1>5 DEF Retry
  <2>2. CASE Forget(pc) /\ Goto(flow.end[pc] + 1) /\ UNCHANGED left
    BY <1>1, <1>2, <2>1, <2>2 DEF Goto, Moved, Move, Forgets, Aimer, Openers, Loops
  <2>3. CASE counters[pc] < Tries(program[pc]) /\ Counted /\ UNCHANGED aimed
    BY <1>1, <1>2, <2>1, <2>3 DEF Counted, Goto, Moved, Move, Repeats, Branches
  <2>4. CASE failed' = TRUE /\ UNCHANGED <<program, flow, pc>> /\ Same
    BY <1>1, <1>2, <2>1, <2>4 DEF Moved, Move, Passes, Aimer
  <2>. QED  BY <1>5, <2>2, <2>3, <2>4 DEF Retry
<1>6. CASE ForTargets
  <2>1. At("foreach") /\ (Goto(flow.end[pc] + 1) \/ Goto(pc + 1))
    BY <1>6 DEF ForTargets, Counted
  <2>. QED  BY <1>1, <1>2, <1>6, <2>1 DEF Goto, Moved, Move, Openers, Loops, Branches
<1>7. CASE EndLoop
  BY <1>1, <1>2, <1>7 DEF EndLoop, Goto, Moved, Move, Passes, Aimer
<1>8. CASE Break
  BY <1>1, <1>2, <1>8 DEF Break, Goto, Moved, Move, Forgets, Aimer
<1>9. CASE Continue
  BY <1>1, <1>2, <1>9 DEF Continue, Goto, Moved, Move, Passes, Aimer
<1>10. CASE If
  <2> DEFINE g == IF flow.otherwise[pc] # 0 THEN flow.otherwise[pc] ELSE flow.end[pc]
  <2>1. /\ At("if") /\ Same /\ program' = program /\ flow' = flow /\ failed' = failed
        /\ pc' = pc + 1 \/ pc' = g + 1
    BY <1>10 DEF If, Goto
  <2>2. (flow.otherwise[pc] # 0 /\ g = flow.otherwise[pc]) \/ g = flow.end[pc]
    OBVIOUS
  <2> HIDE DEF g
  <2>. QED  BY <1>1, <1>2, <2>1, <2>2 DEF Moved, Move, Passes, Aimer, Openers, Loops, Branches
<1>11. CASE ElseOrCase
  BY <1>1, <1>2, <1>11 DEF ElseOrCase, Goto, Moved, Move, Passes, Aimer, Branches
<1>12. CASE Switch
  <2>1. /\ At("switch") /\ Same
        /\ \/ Goto(flow.end[pc] + 1)
           \/ \E k \in 1..Len(program) :
                flow.begin[k] = pc /\ program[k].op = "case" /\ Goto(k + 1)
    BY <1>1, <1>12 DEF Switch
  <2>. QED  BY <1>1, <1>2, <2>1 DEF Goto, Moved, Move, Passes, Aimer, Openers
<1>13. CASE Parallel
  BY <1>1, <1>2, <1>13 DEF Parallel, Goto, Moved, Move, Passes, Aimer, Openers
<1>14. CASE Jump
  BY <1>1, <1>2, <1>14 DEF Jump, Goto, Moved, Move, Passes, Aimer, Branches
<1>15. CASE Straight
  <2>1. PICK op \in {"plain", "endif", "endswitch", "endparallel"} : At(op)
    BY <1>15 DEF Straight
  <2>. QED  BY <1>1, <1>2, <1>15, <2>1 DEF Straight, Goto, Moved, Move, Passes, Aimer, Branches
<1>. QED  BY <1>3, <1>4, <1>5, <1>6, <1>7, <1>8, <1>9, <1>10, <1>11, <1>12, <1>13, <1>14, <1>15 DEF Step

LEMMA Paired ==
  ASSUME Values, ~flow.error
  PROVE  program \in Seq(Acts) /\ WellPaired(program, flow) /\ Len(program) \in Nat
BY ProgramsAssumption, PairsWell, LenProperties DEF Values

(* Forgetting loop i.                                                      *)
LEMMA ForgetIs ==
  ASSUME Values, NEW i \in 1..Len(program), Forget(i)
  PROVE  /\ counters' \in [1..Len(program) -> Nat] /\ passes' = counters'
         /\ targetIds' \in [1..Len(program) -> 0..MaxTargets]
         /\ saved' \in [1..Len(program) -> {None} \cup 0..MaxTargets]
         /\ target' \in 0..MaxTargets
         /\ counters'[i] = 0 /\ saved'[i] = None
         /\ target' = IF saved[i] # None THEN saved[i] ELSE target
         /\ \A j \in 1..Len(program) : j # i => /\ counters'[j] = counters[j] /\ saved'[j] = saved[j]
                                               /\ targetIds'[j] = targetIds[j]
<1>1. MaxTargets \in Nat
  BY ProgramsAssumption
<1>2. counters' = [counters EXCEPT ![i] = 0] /\ passes' = [passes EXCEPT ![i] = 0] /\ passes = counters
  BY DEF Forget, Values
<1>3. saved' = [saved EXCEPT ![i] = None] /\ targetIds' = [targetIds EXCEPT ![i] = 0]
  BY DEF Forget
<1>4. target' = IF saved[i] # None THEN saved[i] ELSE target
  BY DEF Forget
<1>5. counters \in [1..Len(program) -> Nat]
  BY DEF Values
<1>6. /\ targetIds \in [1..Len(program) -> 0..MaxTargets]
      /\ saved \in [1..Len(program) -> {None} \cup 0..MaxTargets] /\ target \in 0..MaxTargets
  BY DEF Values
<1>7. counters' \in [1..Len(program) -> Nat] /\ passes' = counters' /\ counters'[i] = 0
      /\ \A j \in 1..Len(program) : j # i => counters'[j] = counters[j]
  BY <1>2, <1>5
<1>8. /\ saved' \in [1..Len(program) -> {None} \cup 0..MaxTargets] /\ saved'[i] = None
      /\ \A j \in 1..Len(program) : j # i => saved'[j] = saved[j]
  BY <1>3, <1>6
<1>9. /\ targetIds' \in [1..Len(program) -> 0..MaxTargets]
      /\ \A j \in 1..Len(program) : j # i => targetIds'[j] = targetIds[j]
  BY <1>1, <1>3, <1>6
<1>10. target' \in 0..MaxTargets
  BY <1>4, <1>6
<1>. QED  BY <1>4, <1>7, <1>8, <1>9, <1>10

LEMMA RepeatIs ==
  ASSUME Values, pc \in 1..Len(program), Repeats
  PROVE  /\ counters' \in [1..Len(program) -> Nat] /\ passes' = counters'
         /\ counters'[pc] = counters[pc] + 1
         /\ \A j \in 1..Len(program) : j # pc => counters'[j] = counters[j]
         /\ target' = target /\ saved' = saved /\ targetIds' = targetIds /\ left' = left
BY DEF Values, Repeats, aimed

(* Another round over the targets, or the last one is over.                *)
NextTarget(size, own) ==
    /\ counters[pc] < size /\ UNCHANGED left /\ pc' = pc + 1
    /\ counters' = [counters EXCEPT ![pc] = @ + 1]
    /\ saved' = [saved EXCEPT ![pc] = own] /\ targetIds' = [targetIds EXCEPT ![pc] = size]
    /\ target' = counters[pc] + 1
LastTarget(size, own) ==
    /\ counters[pc] >= size /\ pc' = flow.end[pc] + 1
    /\ left' = [loop |-> pc, passes |-> passes[pc], size |-> size]
    /\ counters' = [counters EXCEPT ![pc] = 0]
    /\ saved' = [saved EXCEPT ![pc] = None] /\ targetIds' = [targetIds EXCEPT ![pc] = 0]
    /\ target' = own

(* The two things a loop over targets does.                                *)
LEMMA TargetsAre ==
  ASSUME Values, Counts, pc \in 1..Len(program), ForTargets
  PROVE  /\ Aimer(pc) /\ passes' = counters'
         /\ \E size \in 0..MaxTargets, own \in 0..MaxTargets :
              /\ counters[pc] = 0 => own = target
              /\ counters[pc] # 0 => own = saved[pc] /\ size = targetIds[pc]
              /\ NextTarget(size, own) \/ LastTarget(size, own)
<1>1. /\ program[pc].op = "foreach" /\ Aimer(pc)
  BY DEF ForTargets, At, Aimer
<1>2. PICK seen \in 0..MaxTargets :
         LET size == IF counters[pc] = 0 THEN seen ELSE targetIds[pc]
             own  == IF counters[pc] = 0 THEN target ELSE saved[pc]
         IN  \/ /\ counters[pc] >= size
                /\ left' = [loop |-> pc, passes |-> passes[pc], size |-> size]
                /\ counters' = [counters EXCEPT ![pc] = 0]
                /\ passes' = [passes EXCEPT ![pc] = 0]
                /\ target' = own /\ saved' = [saved EXCEPT ![pc] = None]
                /\ targetIds' = [targetIds EXCEPT ![pc] = 0]
                /\ Goto(flow.end[pc] + 1)
             \/ /\ counters[pc] < size /\ Counted
                /\ saved' = [saved EXCEPT ![pc] = own]
                /\ targetIds' = [targetIds EXCEPT ![pc] = size]
                /\ target' = counters[pc] + 1
  BY DEF ForTargets
<1> DEFINE size == IF counters[pc] = 0 THEN seen ELSE targetIds[pc]
           own  == IF counters[pc] = 0 THEN target ELSE saved[pc]
<1>3. counters[pc] \in Nat /\ passes = counters
  BY DEF Values
<1>4. counters[pc] # 0 => saved[pc] # None
  BY <1>1, <1>3 DEF Counts
<1>5. size \in 0..MaxTargets /\ own \in 0..MaxTargets
  BY <1>4 DEF Values
<1>6. (counters[pc] = 0 => own = target) /\ (counters[pc] # 0 => own = saved[pc] /\ size = targetIds[pc])
  OBVIOUS
<1>7. \/ /\ counters[pc] >= size
         /\ left' = [loop |-> pc, passes |-> passes[pc], size |-> size]
         /\ counters' = [counters EXCEPT ![pc] = 0]
         /\ passes' = [passes EXCEPT ![pc] = 0]
         /\ target' = own /\ saved' = [saved EXCEPT ![pc] = None]
         /\ targetIds' = [targetIds EXCEPT ![pc] = 0]
         /\ Goto(flow.end[pc] + 1)
      \/ /\ counters[pc] < size /\ Counted
         /\ saved' = [saved EXCEPT ![pc] = own]
         /\ targetIds' = [targetIds EXCEPT ![pc] = size]
         /\ target' = counters[pc] + 1
  BY <1>2
<1> HIDE DEF size, own
<1>8. NextTarget(size, own) \/ LastTarget(size, own)
  BY <1>7 DEF NextTarget, LastTarget, Counted, Goto
<1>9. passes' = counters'
  BY <1>3, <1>7 DEF Counted
<1>. QED  BY <1>1, <1>5, <1>6, <1>8, <1>9

LEMMA NextIs ==
  ASSUME Values, pc \in 1..Len(program), NEW size \in 0..MaxTargets, NEW own \in 0..MaxTargets,
         NextTarget(size, own)
  PROVE  /\ counters' \in [1..Len(program) -> Nat]
         /\ targetIds' \in [1..Len(program) -> 0..MaxTargets]
         /\ saved' \in [1..Len(program) -> {None} \cup 0..MaxTargets]
         /\ target' \in 0..MaxTargets
         /\ counters'[pc] = counters[pc] + 1 /\ counters[pc] \in Nat /\ counters[pc] < size
         /\ saved'[pc] = own /\ targetIds'[pc] = size
         /\ left' = left /\ pc' = pc + 1
         /\ \A j \in 1..Len(program) : j # pc => /\ counters'[j] = counters[j] /\ saved'[j] = saved[j]
                                                /\ targetIds'[j] = targetIds[j]
<1>1. MaxTargets \in Nat
  BY ProgramsAssumption
<1>2. /\ counters \in [1..Len(program) -> Nat] /\ targetIds \in [1..Len(program) -> 0..MaxTargets]
      /\ saved \in [1..Len(program) -> {None} \cup 0..MaxTargets]
  BY DEF Values
<1>3. counters' = [counters EXCEPT ![pc] = @ + 1] /\ counters[pc] < size
  BY DEF NextTarget
<1>4. saved' = [saved EXCEPT ![pc] = own] /\ targetIds' = [targetIds EXCEPT ![pc] = size]
  BY DEF NextTarget
<1>5. target' = counters[pc] + 1 /\ left' = left /\ pc' = pc + 1
  BY DEF NextTarget
<1>6. target' \in 0..MaxTargets
  BY <1>1, <1>2, <1>3, <1>5
<1>7. /\ counters' \in [1..Len(program) -> Nat] /\ counters'[pc] = counters[pc] + 1 /\ counters[pc] \in Nat
      /\ \A j \in 1..Len(program) : j # pc => counters'[j] = counters[j]
  BY <1>2, <1>3
<1>8. /\ saved' \in [1..Len(program) -> {None} \cup 0..MaxTargets] /\ saved'[pc] = own
      /\ \A j \in 1..Len(program) : j # pc => saved'[j] = saved[j]
  BY <1>2, <1>4
<1>9. /\ targetIds' \in [1..Len(program) -> 0..MaxTargets] /\ targetIds'[pc] = size
      /\ \A j \in 1..Len(program) : j # pc => targetIds'[j] = targetIds[j]
  BY <1>2, <1>4
<1>. QED  BY <1>3, <1>5, <1>6, <1>7, <1>8, <1>9

LEMMA LastIs ==
  ASSUME Values, pc \in 1..Len(program), NEW size \in 0..MaxTargets, NEW own \in 0..MaxTargets,
         LastTarget(size, own)
  PROVE  /\ counters' \in [1..Len(program) -> Nat]
         /\ targetIds' \in [1..Len(program) -> 0..MaxTargets]
         /\ saved' \in [1..Len(program) -> {None} \cup 0..MaxTargets]
         /\ target' = own /\ counters'[pc] = 0 /\ saved'[pc] = None /\ counters[pc] >= size
         /\ left' = [loop |-> pc, passes |-> counters[pc], size |-> size] /\ pc' = flow.end[pc] + 1
         /\ \A j \in 1..Len(program) : j # pc => /\ counters'[j] = counters[j] /\ saved'[j] = saved[j]
                                                /\ targetIds'[j] = targetIds[j]
<1>1. MaxTargets \in Nat
  BY ProgramsAssumption
<1>2. /\ counters \in [1..Len(program) -> Nat] /\ targetIds \in [1..Len(program) -> 0..MaxTargets]
      /\ saved \in [1..Len(program) -> {None} \cup 0..MaxTargets] /\ passes = counters
  BY DEF Values
<1>3. counters' = [counters EXCEPT ![pc] = 0] /\ counters[pc] >= size
  BY DEF LastTarget
<1>4. saved' = [saved EXCEPT ![pc] = None] /\ targetIds' = [targetIds EXCEPT ![pc] = 0]
  BY DEF LastTarget
<1>5. target' = own /\ pc' = flow.end[pc] + 1
      /\ left' = [loop |-> pc, passes |-> counters[pc], size |-> size]
  BY <1>2 DEF LastTarget
<1>7. /\ counters' \in [1..Len(program) -> Nat] /\ counters'[pc] = 0
      /\ \A j \in 1..Len(program) : j # pc => counters'[j] = counters[j]
  BY <1>2, <1>3
<1>8. /\ saved' \in [1..Len(program) -> {None} \cup 0..MaxTargets] /\ saved'[pc] = None
      /\ \A j \in 1..Len(program) : j # pc => saved'[j] = saved[j]
  BY <1>2, <1>4
<1>9. /\ targetIds' \in [1..Len(program) -> 0..MaxTargets]
      /\ \A j \in 1..Len(program) : j # pc => targetIds'[j] = targetIds[j]
  BY <1>1, <1>2, <1>4
<1>. QED  BY <1>3, <1>5, <1>7, <1>8, <1>9

-----------------------------------------------------------------------------
(* Every step keeps the values, the counts and the aims.                   *)
LEMMA KeepsValues ==
  ASSUME Values, Counts, Step
  PROVE  Values'
<1>1. Moved /\ (Passes \/ Forgets \/ RunsOut \/ Repeats \/ ForTargets)
  BY StepMoves
<1>2. program \in Seq(Acts) /\ WellPaired(program, flow) /\ pc \in 1..Len(program)
  BY <1>1, Paired DEF Moved
<1>3. pc' \in 1..(Len(program) + 1)
  BY <1>1, <1>2, MoveLands DEF Moved
<1>4. program' \in Programs /\ flow' = compileFlow(program)' /\ failed' \in BOOLEAN /\ program' = program
  BY <1>1 DEF Moved, Values
<1>5. Forgets => \E i \in 1..Len(program) : Forget(i)
  BY <1>2, LoopApart DEF Forgets
<1> DEFINE V == /\ counters' \in [1..Len(program) -> Nat] /\ passes' = counters'
                /\ targetIds' \in [1..Len(program) -> 0..MaxTargets]
                /\ saved' \in [1..Len(program) -> {None} \cup 0..MaxTargets]
                /\ target' \in 0..MaxTargets
<1>6. ASSUME Passes PROVE V
  BY <1>6 DEF Passes, Same, aimed, Values
<1>7. ASSUME Forgets \/ RunsOut PROVE V
  <2>1. PICK i \in 1..Len(program) : Forget(i)
    BY <1>2, <1>5, <1>7 DEF RunsOut
  <2>. QED  BY <2>1, ForgetIs
<1>8. ASSUME Repeats PROVE V
  BY <1>2, <1>8, RepeatIs DEF Values
<1>9. ASSUME ForTargets PROVE V
  <2>1. /\ passes' = counters'
        /\ \E size \in 0..MaxTargets, own \in 0..MaxTargets : NextTarget(size, own) \/ LastTarget(size, own)
    BY <1>2, <1>9, TargetsAre
  <2>2. PICK size \in 0..MaxTargets, own \in 0..MaxTargets : NextTarget(size, own) \/ LastTarget(size, own)
    BY <2>1
  <2>3. CASE NextTarget(size, own)
    BY <1>2, <2>1, <2>3, NextIs
  <2>4. CASE LastTarget(size, own)
    BY <1>2, <2>1, <2>4, LastIs
  <2>. QED  BY <2>2, <2>3, <2>4
<1>10. V
  BY <1>1, <1>6, <1>7, <1>8, <1>9
<1> HIDE DEF V
<1>. QED  BY <1>3, <1>4, <1>10 DEF Values, V

RoundsAt(i) == /\ program[i].op = "loop" => counters[i] <= program[i].n
               /\ Aimer(i) => counters[i] <= targetIds[i]
               /\ saved[i] # None <=> Aimer(i) /\ counters[i] > 0

(* The rounds counted are those gone since the loop was entered.           *)
LEMMA KeepsCounts ==
  ASSUME Values, Counts, Step
  PROVE  Counts'
<1>1. Moved /\ (Passes \/ Forgets \/ RunsOut \/ Repeats \/ ForTargets)
  BY StepMoves
<1>2. /\ program \in Seq(Acts) /\ WellPaired(program, flow) /\ pc \in 1..Len(program)
      /\ program' = program
  BY <1>1, Paired DEF Moved
<1>3. /\ \A i \in 1..Len(program) : RoundsAt(i)
      /\ left.loop # 0 => left.passes = left.size
  BY DEF Counts, RoundsAt, LoopsRunTheirCount
<1>4. \A i \in 1..Len(program) : (Aimer(i) <=> program[i].op = "foreach")
  BY DEF Aimer
<1>5. /\ \A i \in 1..Len(program) : counters[i] \in Nat /\ targetIds[i] \in Nat /\ program[i].n \in Nat
      /\ passes = counters
  <2>1. MaxTargets \in Nat
    BY ProgramsAssumption
  <2>. QED  BY <1>2, <2>1, OpsAre DEF Values
<1> DEFINE C == /\ \A i \in 1..Len(program) :
                     /\ program[i].op = "loop" => counters'[i] <= program[i].n
                     /\ program[i].op = "foreach" => counters'[i] <= targetIds'[i]
                     /\ saved'[i] # None <=> program[i].op = "foreach" /\ counters'[i] > 0
                /\ left'.loop # 0 => left'.passes = left'.size
<1>6. ASSUME Passes PROVE C
  BY <1>3, <1>4, <1>6 DEF Passes, Same, aimed, RoundsAt
<1>7. ASSUME Forgets \/ RunsOut PROVE C
  <2>1. PICK i \in 1..Len(program) : Forget(i)
    BY <1>2, <1>7, LoopApart DEF RunsOut, Forgets
  <2>2. /\ counters'[i] = 0 /\ saved'[i] = None
        /\ \A j \in 1..Len(program) : j # i => /\ counters'[j] = counters[j] /\ saved'[j] = saved[j]
                                              /\ targetIds'[j] = targetIds[j]
        /\ targetIds'[i] \in Nat
    <3>1. MaxTargets \in Nat
      BY ProgramsAssumption
    <3>. QED  BY <2>1, <3>1, ForgetIs
  <2>3. left'.loop # 0 => left'.passes = left'.size
    <3>1. CASE UNCHANGED left
      BY <1>3, <3>1
    <3>2. CASE RunsOut
      <4>1. counters[pc] = program[pc].n
        BY <1>2, <1>3, <1>5, <3>2 DEF RunsOut, RoundsAt
      <4>. QED  BY <1>5, <3>2, <4>1 DEF RunsOut
    <3>. QED  BY <1>7, <3>1, <3>2 DEF Forgets
  <2>. QED  BY <1>3, <1>4, <1>5, <2>2, <2>3, SMTT(30) DEF RoundsAt
<1>8. ASSUME Repeats PROVE C
  <2>1. /\ counters'[pc] = counters[pc] + 1
        /\ \A j \in 1..Len(program) : j # pc => counters'[j] = counters[j]
        /\ saved' = saved /\ targetIds' = targetIds /\ left' = left
    BY <1>2, <1>8, RepeatIs
  <2>2. /\ program[pc].op # "foreach"
        /\ program[pc].op = "loop" => counters[pc] + 1 <= program[pc].n
    BY <1>2, <1>5, <1>8 DEF Repeats
  <2>. QED  BY <1>2, <1>3, <1>4, <1>5, <2>1, <2>2 DEF RoundsAt
<1>9. ASSUME ForTargets PROVE C
  <2>1. /\ Aimer(pc) /\ passes' = counters'
        /\ \E size \in 0..MaxTargets, own \in 0..MaxTargets :
              /\ counters[pc] = 0 => own = target
              /\ counters[pc] # 0 => own = saved[pc] /\ size = targetIds[pc]
              /\ NextTarget(size, own) \/ LastTarget(size, own)
    BY <1>2, <1>9, TargetsAre
  <2>2. PICK size \in 0..MaxTargets, own \in 0..MaxTargets :
              /\ counters[pc] # 0 => own = saved[pc] /\ size = targetIds[pc]
              /\ NextTarget(size, own) \/ LastTarget(size, own)
    BY <2>1
  <2>3. MaxTargets \in Nat /\ size \in Nat /\ own \in Nat /\ own # None /\ program[pc].op = "foreach"
    BY <2>1, ProgramsAssumption DEF None, Aimer
  <2>4. CASE NextTarget(size, own)
    <3>1. /\ counters'[pc] = counters[pc] + 1 /\ counters[pc] \in Nat /\ counters[pc] < size
          /\ saved'[pc] = own /\ targetIds'[pc] = size
          /\ left' = left
          /\ \A j \in 1..Len(program) : j # pc => /\ counters'[j] = counters[j] /\ saved'[j] = saved[j]
                                                 /\ targetIds'[j] = targetIds[j]
      BY <1>2, <2>4, NextIs
    <3>. QED  BY <1>3, <1>4, <1>5, <2>3, <3>1 DEF RoundsAt
  <2>5. CASE LastTarget(size, own)
    <3>1. /\ counters'[pc] = 0 /\ saved'[pc] = None /\ counters[pc] >= size
          /\ left' = [loop |-> pc, passes |-> counters[pc], size |-> size]
          /\ \A j \in 1..Len(program) : j # pc => /\ counters'[j] = counters[j] /\ saved'[j] = saved[j]
                                                 /\ targetIds'[j] = targetIds[j]
          /\ targetIds'[pc] \in 0..MaxTargets
      BY <1>2, <2>5, LastIs
    <3>2. counters[pc] = size
      BY <1>2, <1>3, <1>4, <1>5, <2>2, <2>3, <3>1 DEF RoundsAt
    <3>3. targetIds'[pc] \in Nat /\ (left'.passes = left'.size)
      BY <2>3, <3>1, <3>2
    <3>. QED  BY <1>3, <1>4, <1>5, <2>3, <3>1, <3>3 DEF RoundsAt
  <2>. QED  BY <2>2, <2>4, <2>5
<1>10. C
  BY <1>1, <1>6, <1>7, <1>8, <1>9
<1> HIDE DEF C
<1>. QED  BY <1>2, <1>10 DEF Counts, Aimer, LoopsRunTheirCount, C

(* A loop over targets that is not under way has given the target back.    *)
LEMMA KeepsAims ==
  ASSUME Values, Counts, Aims, Step
  PROVE  Aims'
<1>1. Moved /\ (Passes \/ Forgets \/ RunsOut \/ Repeats \/ ForTargets)
  BY StepMoves
<1>2. /\ program \in Seq(Acts) /\ WellPaired(program, flow) /\ pc \in 1..Len(program)
      /\ program' = program /\ flow' = flow /\ Len(program) \in Nat /\ Move(program, flow, pc, pc')
  BY <1>1, Paired DEF Moved
<1> DEFINE D ==
      /\ \A t \in 1..Len(program) : Aimer(t) =>
           /\ Within(flow, t, pc') => counters'[t] > 0
           /\ counters'[t] > 0 => Within(flow, t, pc') \/ pc' = t
      /\ (\A t \in 1..Len(program) : Aimer(t) => counters'[t] = 0) => target' = 0
      /\ \A t \in 1..Len(program) :
           /\ Aimer(t) /\ counters'[t] > 0
           /\ \A s \in 1..Len(program) : Aimer(s) /\ s < t => counters'[s] = 0
           => saved'[t] = 0
<1>3. SUFFICES ASSUME NoJumps PROVE D
  <2>1. \A t : Aimer(t)' <=> Aimer(t)
    BY <1>2 DEF Aimer
  <2>2. NoJumps' <=> NoJumps
    BY <1>2 DEF NoJumps
  <2>3. \A t, x : Within(flow, t, x)' <=> Within(flow, t, x')
    BY <1>2 DEF Within
  <2>. QED  BY <1>2, <2>1, <2>2 DEF Aims, Within
<1>4. program[pc].op # "jump"
  BY <1>2, <1>3 DEF NoJumps
<1>5. \A t \in 1..Len(program) : Aimer(t) =>
        /\ program[t].op \in Loops
        /\ Within(flow, t, pc') /\ pc # t => Within(flow, t, pc)
        /\ Within(flow, t, pc) => \/ Within(flow, t, pc') \/ pc' = t
                                  \/ program[pc].op = "break" /\ flow.begin[pc] = t
  <2>1. \A t \in 1..Len(program) : Aimer(t) => program[t].op \in Loops
    BY DEF Aimer, Loops
  <2>2. ASSUME NEW t \in 1..Len(program), Aimer(t), Within(flow, t, pc'), pc # t
        PROVE  Within(flow, t, pc)
    BY <1>2, <1>4, <2>1, <2>2, ComesIn
  <2>3. ASSUME NEW t \in 1..Len(program), Aimer(t), Within(flow, t, pc)
        PROVE  Within(flow, t, pc') \/ pc' = t \/ (program[pc].op = "break" /\ flow.begin[pc] = t)
    BY <1>2, <1>4, <2>1, <2>3, GoesOut
  <2>. QED  BY <2>1, <2>2, <2>3
<1>6. /\ \A t \in 1..Len(program) : Aimer(t) =>
           /\ Within(flow, t, pc) => counters[t] > 0
           /\ counters[t] > 0 => Within(flow, t, pc) \/ pc = t
      /\ (\A t \in 1..Len(program) : Aimer(t) => counters[t] = 0) => target = 0
      /\ \A t \in 1..Len(program) :
           /\ Aimer(t) /\ counters[t] > 0
           /\ \A s \in 1..Len(program) : Aimer(s) /\ s < t => counters[s] = 0
           => saved[t] = 0
  BY <1>3 DEF Aims
<1>7. \A t \in 1..Len(program) : counters[t] \in Nat /\ (saved[t] # None <=> Aimer(t) /\ counters[t] > 0)
  BY DEF Values, Counts
(* Nothing about the loops over targets changes.                           *)
<1>8. ASSUME program[pc].op # "break", ~Aimer(pc), target' = target,
             \A t \in 1..Len(program) : Aimer(t) => counters'[t] = counters[t] /\ saved'[t] = saved[t]
      PROVE  D
  <2>1. \A t \in 1..Len(program) : Aimer(t) => pc # t
    BY <1>8
  <2>2. \A t \in 1..Len(program) : Aimer(t) =>
           /\ Within(flow, t, pc') => counters'[t] > 0
           /\ counters'[t] > 0 => Within(flow, t, pc') \/ pc' = t
    BY <1>5, <1>6, <1>8, <2>1
  <2>. QED  BY <1>6, <1>8, <2>2
<1>9. CASE Passes
  BY <1>8, <1>9 DEF Passes, Same, aimed
<1>10. CASE Repeats
  <2>1. program[pc].op # "break" /\ ~Aimer(pc)
    BY <1>10 DEF Repeats, Aimer
  <2>2. /\ \A j \in 1..Len(program) : j # pc => counters'[j] = counters[j]
        /\ target' = target /\ saved' = saved
    BY <1>2, <1>10, RepeatIs
  <2>. QED  BY <1>8, <2>1, <2>2
<1>11. ASSUME program[pc].op # "break", ~Aimer(pc), Forget(pc)
       PROVE  D
  <2>1. /\ target' = IF saved[pc] # None THEN saved[pc] ELSE target
        /\ \A j \in 1..Len(program) : j # pc => counters'[j] = counters[j] /\ saved'[j] = saved[j]
    BY <1>2, <1>11, ForgetIs
  <2>2. target' = target
    BY <1>2, <1>7, <1>11, <2>1
  <2>. QED  BY <1>8, <1>11, <2>1, <2>2
<1>12. ASSUME program[pc].op = "break", Forget(flow.begin[pc]), pc' = flow.end[flow.begin[pc]] + 1
       PROVE  D
  <2> DEFINE i == flow.begin[pc]
  <2>1. /\ i \in 1..Len(program) /\ i < pc /\ pc < flow.end[i] /\ program[i].op \in Loops
        /\ \A l \in 1..Len(program) : program[l].op \in Loops /\ l < pc /\ pc < flow.end[l] => l <= i
    BY <1>2, <1>12, LoopApart
  <2>2. /\ target' = IF saved[i] # None THEN saved[i] ELSE target
        /\ counters'[i] = 0
        /\ \A j \in 1..Len(program) : j # i => counters'[j] = counters[j] /\ saved'[j] = saved[j]
    BY <1>12, <2>1, ForgetIs
  <2>3. \A l \in 1..Len(program) : program[l].op \in Loops => pc # flow.end[l] /\ flow.end[l] \in Nat
    <3>1. \A l \in 1..Len(program) : program[l].op \in Loops => program[flow.end[l]].op = "endloop"
      BY <1>2, LoopEnds
    <3>2. flow.end \in Lines(program)
      BY <1>2 DEF WellPaired
    <3>3. \A l \in 1..Len(program) : flow.end[l] \in Nat
      BY <1>2, <3>2 DEF Lines
    <3>. QED  BY <1>12, <3>1, <3>3
  <2>4. pc' = flow.end[i] + 1
    BY <1>12
  <2>5. \A t \in 1..Len(program) : Aimer(t) =>
           /\ Within(flow, t, pc') /\ pc # t => Within(flow, t, pc)
           /\ Within(flow, t, pc) => Within(flow, t, pc') \/ pc' = t \/ i = t
    BY <1>5
  <2>6. \A t \in 1..Len(program) : Aimer(t) => pc # t /\ program[t].op \in Loops
    BY <1>12 DEF Aimer, Loops
  <2> HIDE DEF i
  <2>7. ~Within(flow, i, pc') /\ Within(flow, i, pc)
    BY <1>2, <2>1, <2>3, <2>4 DEF Within
  <2>8. ASSUME NEW t \in 1..Len(program), Aimer(t), counters[t] > 0
        PROVE  t <= i
    <3>1. Within(flow, t, pc)
      BY <1>6, <2>6, <2>8
    <3>2. t < pc /\ pc < flow.end[t]
      BY <1>2, <2>3, <2>6, <2>8, <3>1 DEF Within
    <3>. QED  BY <2>1, <2>6, <2>8, <3>2
  <2>9. \A t \in 1..Len(program) : Aimer(t) =>
           /\ Within(flow, t, pc') => counters'[t] > 0
           /\ counters'[t] > 0 => Within(flow, t, pc') \/ pc' = t
    BY <1>6, <2>2, <2>5, <2>6, <2>7
  <2>10. ASSUME \A t \in 1..Len(program) : Aimer(t) => counters'[t] = 0
         PROVE  target' = 0
    <3>1. \A t \in 1..Len(program) : Aimer(t) /\ t # i => counters[t] = 0
      BY <2>2, <2>10
    <3>2. CASE Aimer(i)
      <4>1. counters[i] > 0
        BY <1>6, <2>1, <2>7, <3>2
      <4>2. saved[i] = 0
        BY <1>2, <1>6, <2>1, <3>1, <3>2, <4>1
      <4>. QED  BY <2>2, <4>2 DEF None
    <3>3. CASE ~Aimer(i)
      <4>1. saved[i] = None
        BY <1>7, <2>1, <3>3
      <4>2. \A t \in 1..Len(program) : Aimer(t) => counters[t] = 0
        BY <3>1, <3>3
      <4>. QED  BY <1>6, <2>2, <4>1, <4>2
    <3>. QED  BY <3>2, <3>3
  <2>11. ASSUME NEW t \in 1..Len(program), Aimer(t), counters'[t] > 0,
                \A s \in 1..Len(program) : Aimer(s) /\ s < t => counters'[s] = 0
         PROVE  saved'[t] = 0
    <3>1. t # i /\ counters[t] > 0 /\ saved'[t] = saved[t]
      BY <2>2, <2>11
    <3>2. t < i
      BY <1>2, <2>1, <2>8, <2>11, <3>1
    <3>3. \A s \in 1..Len(program) : Aimer(s) /\ s < t => counters[s] = 0
      BY <1>2, <2>1, <2>2, <2>11, <3>2
    <3>. QED  BY <1>6, <2>11, <3>1, <3>3
  <2>. QED  BY <2>9, <2>10, <2>11
<1>13. CASE ForTargets
  <2>1. /\ Aimer(pc)
        /\ \E size \in 0..MaxTargets, own \in 0..MaxTargets :
              /\ counters[pc] = 0 => own = target
              /\ counters[pc] # 0 => own = saved[pc] /\ size = targetIds[pc]
              /\ NextTarget(size, own) \/ LastTarget(size, own)
    BY <1>2, <1>13, TargetsAre
  <2>2. PICK size \in 0..MaxTargets, own \in 0..MaxTargets :
              /\ counters[pc] = 0 => own = target
              /\ counters[pc] # 0 => own = saved[pc]
              /\ NextTarget(size, own) \/ LastTarget(size, own)
    BY <2>1
  <2>3. program[pc].op # "break" /\ ~Within(flow, pc, pc) /\ counters[pc] \in Nat
    BY <1>2, <1>7, <2>1 DEF Aimer, Within
  <2>4. ASSUME NEW t \in 1..Len(program), Aimer(t), counters[t] > 0
        PROVE  t <= pc
    BY <1>2, <1>6, <2>4 DEF Within
  <2>5. \A t \in 1..Len(program) : Aimer(t) /\ t # pc =>
           /\ Within(flow, t, pc') => counters[t] > 0
           /\ counters[t] > 0 => Within(flow, t, pc') \/ pc' = t
    BY <1>5, <1>6, <2>3
  (* None before pc is under way: the target is the one to come back to.   *)
  <2>6. ASSUME \A s \in 1..Len(program) : Aimer(s) /\ s < pc => counters[s] = 0
        PROVE  own = 0
    <3>1. CASE counters[pc] = 0
      <4>1. \A s \in 1..Len(program) : Aimer(s) => counters[s] = 0
        <5>1. ASSUME NEW s \in 1..Len(program), Aimer(s), counters[s] # 0 PROVE FALSE
          <6>1. s <= pc
            BY <1>7, <2>4, <5>1
          <6>2. s < pc
            BY <1>2, <3>1, <5>1, <6>1
          <6>. QED  BY <2>6, <5>1, <6>2
        <5>. QED  BY <5>1
      <4>. QED  BY <1>6, <2>2, <3>1, <4>1
    <3>2. CASE counters[pc] # 0
      <4>1. counters[pc] > 0
        BY <2>3, <3>2
      <4>. QED  BY <1>2, <1>6, <2>1, <2>2, <2>6, <3>2, <4>1
    <3>. QED  BY <3>1, <3>2
  <2>7. CASE NextTarget(size, own)
    <3>1. /\ counters'[pc] = counters[pc] + 1 /\ saved'[pc] = own /\ pc' = pc + 1
          /\ \A j \in 1..Len(program) : j # pc => counters'[j] = counters[j] /\ saved'[j] = saved[j]
      BY <1>2, <2>7, NextIs
    <3>2. counters'[pc] > 0
      BY <2>3, <3>1
    <3>3. Within(flow, pc, pc')
      <4>1. pc < flow.end[pc] /\ flow.end[pc] \in 1..Len(program)
        BY <1>2, <1>5, <2>1, Apart, Kinds
      <4>. QED  BY <1>2, <3>1, <4>1 DEF Within
    <3>4. \A t \in 1..Len(program) : Aimer(t) =>
             /\ Within(flow, t, pc') => counters'[t] > 0
             /\ counters'[t] > 0 => Within(flow, t, pc') \/ pc' = t
      BY <2>5, <3>1, <3>2, <3>3
    <3>5. ASSUME NEW t \in 1..Len(program), Aimer(t), counters'[t] > 0,
                 \A s \in 1..Len(program) : Aimer(s) /\ s < t => counters'[s] = 0
          PROVE  saved'[t] = 0
      <4>1. CASE t = pc
        <5>1. \A s \in 1..Len(program) : Aimer(s) /\ s < pc => counters[s] = 0
          BY <1>2, <3>1, <3>5, <4>1
        <5>. QED  BY <2>6, <3>1, <4>1, <5>1
      <4>2. CASE t # pc
        <5>1. counters[t] > 0 /\ saved'[t] = saved[t] /\ t <= pc
          BY <2>4, <3>1, <3>5, <4>2
        <5>2. \A s \in 1..Len(program) : Aimer(s) /\ s < t => counters[s] = 0
          BY <1>2, <3>1, <3>5, <4>2, <5>1
        <5>. QED  BY <1>6, <3>5, <5>1, <5>2
      <4>. QED  BY <4>1, <4>2
    <3>. QED  BY <1>2, <2>1, <3>2, <3>4, <3>5
  <2>8. CASE LastTarget(size, own)
    <3>1. /\ counters'[pc] = 0 /\ target' = own /\ pc' = flow.end[pc] + 1
          /\ \A j \in 1..Len(program) : j # pc => counters'[j] = counters[j] /\ saved'[j] = saved[j]
      BY <1>2, <2>8, LastIs
    <3>2. ~Within(flow, pc, pc')
      <4>1. flow.end[pc] \in 1..Len(program)
        BY <1>2, <1>5, <2>1, Apart, Kinds
      <4>. QED  BY <1>2, <3>1, <4>1 DEF Within
    <3>3. \A t \in 1..Len(program) : Aimer(t) =>
             /\ Within(flow, t, pc') => counters'[t] > 0
             /\ counters'[t] > 0 => Within(flow, t, pc') \/ pc' = t
      BY <2>5, <3>1, <3>2
    <3>4. ASSUME \A t \in 1..Len(program) : Aimer(t) => counters'[t] = 0
          PROVE  target' = 0
      <4>1. \A s \in 1..Len(program) : Aimer(s) /\ s < pc => counters[s] = 0
        BY <1>2, <3>1, <3>4
      <4>. QED  BY <2>6, <3>1, <4>1
    <3>5. ASSUME NEW t \in 1..Len(program), Aimer(t), counters'[t] > 0,
                 \A s \in 1..Len(program) : Aimer(s) /\ s < t => counters'[s] = 0
          PROVE  saved'[t] = 0
      <4>1. t # pc
        BY <3>1, <3>5
      <4>2. counters[t] > 0 /\ saved'[t] = saved[t] /\ t <= pc
        BY <2>4, <3>1, <3>5, <4>1
      <4>3. \A s \in 1..Len(program) : Aimer(s) /\ s < t => counters[s] = 0
        BY <1>2, <3>1, <3>5, <4>1, <4>2
      <4>. QED  BY <1>6, <3>5, <4>2, <4>3
    <3>. QED  BY <3>3, <3>4, <3>5
  <2>. QED  BY <2>2, <2>7, <2>8
<1>14. CASE Forgets
  BY <1>11, <1>12, <1>14 DEF Forgets
<1>15. CASE RunsOut
  BY <1>11, <1>15 DEF RunsOut, Aimer
<1>. QED  BY <1>1, <1>9, <1>10, <1>13, <1>14, <1>15

(* A script starts at its first action, with nothing counted.              *)
LEMMA AtTheStart ==
  FlowInit => FlowInv
<1>1. SUFFICES ASSUME FlowInit PROVE FlowInv
  OBVIOUS
<1>2. /\ program \in Seq(Acts) /\ DOMAIN program = 1..Len(program) /\ Len(program) \in Nat
      /\ MaxTargets \in Nat
  BY <1>1, ProgramsAssumption, LenProperties DEF FlowInit
<1>3. /\ counters = [i \in 1..Len(program) |-> 0] /\ passes = [i \in 1..Len(program) |-> 0]
      /\ saved = [i \in 1..Len(program) |-> None] /\ targetIds = [i \in 1..Len(program) |-> 0]
      /\ pc = 1 /\ target = 0 /\ left.loop = 0
  BY <1>1, <1>2 DEF FlowInit
<1>4. Values
  <2>1. program \in Programs /\ flow = compileFlow(program) /\ failed \in BOOLEAN
    BY <1>1 DEF FlowInit
  <2>. QED  BY <1>2, <1>3, <2>1 DEF Values
<1>5. \A i \in 1..Len(program) : program[i].n \in Nat
  BY <1>2, OpsAre
<1>6. Counts
  BY <1>2, <1>3, <1>5 DEF Counts, LoopsRunTheirCount
<1>7. Aims
  <2>1. \A t \in 1..Len(program) : ~Within(flow, t, pc) /\ counters[t] = 0
    BY <1>2, <1>3 DEF Within
  <2>. QED  BY <1>3, <2>1 DEF Aims
<1>. QED  BY <1>4, <1>6, <1>7 DEF FlowInv

(* Every step of a script keeps its invariant.                             *)
LEMMA KeepsFlowInv ==
  FlowInv /\ [FlowNext]_flowVars => FlowInv'
<1>1. SUFFICES ASSUME FlowInv, [FlowNext]_flowVars PROVE FlowInv'
  OBVIOUS
<1>2. CASE Step
  BY <1>1, <1>2, KeepsValues, KeepsCounts, KeepsAims DEF FlowInv
<1>3. CASE UNCHANGED flowVars
  <2>1. /\ program' = program /\ flow' = flow /\ pc' = pc /\ failed' = failed /\ counters' = counters
        /\ target' = target /\ saved' = saved /\ targetIds' = targetIds /\ passes' = passes /\ left' = left
    BY <1>3 DEF flowVars, place, aimed
  <2>2. Values'
    BY <1>1, <2>1 DEF FlowInv, Values
  <2>3. Counts'
    BY <1>1, <2>1 DEF FlowInv, Counts, Aimer, LoopsRunTheirCount
  <2>4. Aims'
    BY <1>1, <2>1 DEF FlowInv, Aims, NoJumps, Aimer, Within
  <2>. QED  BY <2>2, <2>3, <2>4 DEF FlowInv
<1>. QED  BY <1>1, <1>2, <1>3 DEF FlowNext, Over

LEMMA InvShowsPlace ==
  FlowInv => PlaceInv
<1>1. SUFFICES ASSUME FlowInv PROVE PlaceInv
  OBVIOUS
<1>2. /\ program \in Seq(Acts) /\ DOMAIN program = 1..Len(program) /\ Len(program) \in Nat
      /\ Values /\ Counts /\ Aims
  BY <1>1, ProgramsAssumption, LenProperties DEF FlowInv, Values
<1>3. FlowTypeOK
  BY <1>2 DEF Values, FlowTypeOK
<1>4. TargetRestored
  <2>1. SUFFICES ASSUME ~flow.error, \A i \in DOMAIN program : program[i].op # "jump",
                        \A i \in DOMAIN program : program[i].op = "foreach" =>
                          pc < i \/ pc > flow.end[i] \/ (pc = i /\ counters[i] = 0)
                 PROVE  target = 0
    BY DEF TargetRestored
  <2>2. NoJumps
    BY <1>2, <2>1 DEF NoJumps
  <2>3. ASSUME NEW t \in 1..Len(program), Aimer(t) PROVE counters[t] = 0
    <3>1. counters[t] \in Nat /\ pc \in Nat
      BY <1>2 DEF Values
    <3>2. counters[t] > 0 => Within(flow, t, pc) \/ pc = t
      BY <1>2, <2>2, <2>3 DEF Aims
    <3>3. pc < t \/ pc > flow.end[t] \/ (pc = t /\ counters[t] = 0)
      BY <1>2, <2>1, <2>3 DEF Aimer
    <3>4. flow.end[t] \in Nat
      <4>1. flow.end \in Lines(program)
        BY <1>2, <2>1, Paired DEF WellPaired
      <4>. QED  BY <1>2, <4>1 DEF Lines
    <3>5. t < flow.end[t]
      BY <1>2, <2>1, <2>3, Paired, Apart, Kinds DEF Aimer, Loops
    <3>. QED  BY <1>2, <3>1, <3>2, <3>3, <3>4, <3>5 DEF Within
  <2>. QED  BY <1>2, <2>2, <2>3 DEF Aims
<1>5. LoopsRunTheirCount
  BY <1>2 DEF Counts
<1>. QED  BY <1>3, <1>4, <1>5 DEF PlaceInv

(* Of every program, whatever its length and its blocks: the program       *)
(* counter stays in it, a loop that ends by its count has run its body     *)
(* that often, and outside the loops over targets a flow without jumps     *)
(* aims at the target it started with.                                     *)
THEOREM PlaceInvHolds == FlowSpec => []PlaceInv
<1>1. FlowSpec => []FlowInv
  BY AtTheStart, KeepsFlowInv, PTL DEF FlowSpec
<1>. QED  BY <1>1, InvShowsPlace, PTL

(* Of every program: no step that is not a jump leads from the part before *)
(* an else into the part after it.                                         *)
THEOREM OneBranchOnlyHolds == FlowSpec => OneBranchOnly
<1> DEFINE Kept == \A i \in DOMAIN program : ~flow.error /\ flow.otherwise[i] # 0 =>
                     ~(/\ i < pc /\ pc <= flow.otherwise[i] /\ program[pc].op # "jump"
                       /\ flow.otherwise[i] < pc' /\ pc' < flow.end[i])
<1>1. ASSUME FlowInv, [FlowNext]_flowVars PROVE Kept
  <2>1. SUFFICES ASSUME NEW i \in DOMAIN program, ~flow.error, flow.otherwise[i] # 0,
                        i < pc, pc <= flow.otherwise[i], program[pc].op # "jump",
                        flow.otherwise[i] < pc', pc' < flow.end[i]
                 PROVE  FALSE
    OBVIOUS
  <2>2. Values /\ program \in Seq(Acts) /\ WellPaired(program, flow) /\ DOMAIN program = 1..Len(program)
    BY <1>1, <2>1, Paired, LenProperties DEF FlowInv
  <2>3. pc' # pc
    <3>1. pc \in Nat /\ flow.otherwise[i] \in Nat
      BY <2>1, <2>2, ElseApart DEF Values
    <3>. QED  BY <2>1, <3>1
  <2>4. Step
    BY <1>1, <2>3 DEF FlowNext, Over, flowVars, place
  <2>5. pc \in 1..Len(program) /\ Move(program, flow, pc, pc')
    BY <2>2, <2>4, StepMoves DEF Moved
  <2> DEFINE e == flow.otherwise[i]
  <2>6. ~(e < pc' /\ pc' < flow.end[i])
    BY <2>1, <2>2, <2>5, KeepsToItsBranch
  <2>. QED  BY <2>1, <2>6
<1>2. FlowSpec => []FlowInv
  BY AtTheStart, KeepsFlowInv, PTL DEF FlowSpec
<1>3. FlowSpec => [][Kept]_flowVars
  BY <1>1, <1>2, PTL DEF FlowSpec
<1>. QED  BY <1>3 DEF OneBranchOnly

-----------------------------------------------------------------------------
(* The stack and the depth of the nesting.                                 *)
OfKind(p, K, i) == {k \in 1..i : p[k].op \in K}

LEMMA Another ==
  ASSUME NEW p, NEW K, NEW i \in Nat, i > 0
  PROVE  /\ Cardinality(OfKind(p, K, i - 1)) \in Nat
         /\ Cardinality(OfKind(p, K, i)) = Cardinality(OfKind(p, K, i - 1))
                                           + (IF p[i].op \in K THEN 1 ELSE 0)
<1> DEFINE S == OfKind(p, K, i - 1)
<1>1. IsFiniteSet(1..(i - 1)) /\ S \in SUBSET (1..(i - 1))
  BY FS_Interval DEF OfKind
<1>2. IsFiniteSet(S)
  BY <1>1, FS_Subset
<1>3. i \notin S
  BY DEF OfKind
<1>4. OfKind(p, K, i) = IF p[i].op \in K THEN S \cup {i} ELSE S
  BY DEF OfKind
<1> HIDE DEF S
<1>5. Cardinality(S) \in Nat /\ Cardinality(S \cup {i}) = Cardinality(S) + 1
  BY <1>2, <1>3, FS_CardinalityType, FS_AddElement
<1>6. CASE p[i].op \in K
  BY <1>4, <1>5, <1>6 DEF S
<1>7. CASE p[i].op \notin K
  BY <1>4, <1>5, <1>7 DEF S
<1>. QED  BY <1>6, <1>7

LEMMA DepthIs ==
  ASSUME NEW p
  PROVE  /\ Depth(p, 0) = 0
         /\ \A i \in Nat : Depth(p, i) \in Int
         /\ \A i \in Nat : i > 0 =>
              Depth(p, i) = Depth(p, i - 1) + (IF p[i].op \in Openers THEN 1 ELSE 0)
                                            - (IF p[i].op \in Closers THEN 1 ELSE 0)
<1>1. \A i \in Nat : Depth(p, i) = Cardinality(OfKind(p, Openers, i)) - Cardinality(OfKind(p, Closers, i))
  BY DEF Depth, OfKind
<1>2. Cardinality(OfKind(p, Openers, 0)) = 0 /\ Cardinality(OfKind(p, Closers, 0)) = 0
  <2>1. OfKind(p, Openers, 0) = {} /\ OfKind(p, Closers, 0) = {}
    BY DEF OfKind
  <2>. QED  BY <2>1, FS_EmptySet
<1>3. \A i \in Nat : Cardinality(OfKind(p, Openers, i)) \in Nat /\ Cardinality(OfKind(p, Closers, i)) \in Nat
  <2>1. ASSUME NEW i \in Nat PROVE Cardinality(OfKind(p, Openers, i)) \in Nat
    BY Another, i + 1 \in Nat, i + 1 > 0, i + 1 - 1 = i
  <2>2. ASSUME NEW i \in Nat PROVE Cardinality(OfKind(p, Closers, i)) \in Nat
    BY Another, i + 1 \in Nat, i + 1 > 0, i + 1 - 1 = i
  <2>. QED  BY <2>1, <2>2
<1>4. ASSUME NEW i \in Nat, i > 0
      PROVE  Depth(p, i) = Depth(p, i - 1) + (IF p[i].op \in Openers THEN 1 ELSE 0)
                                           - (IF p[i].op \in Closers THEN 1 ELSE 0)
  <2> DEFINE a == Cardinality(OfKind(p, Openers, i - 1))
             b == Cardinality(OfKind(p, Closers, i - 1))
             x == IF p[i].op \in Openers THEN 1 ELSE 0
             y == IF p[i].op \in Closers THEN 1 ELSE 0
  <2>0. i - 1 \in Nat /\ x \in Nat /\ y \in Nat
    BY <1>4
  <2>1. a \in Nat /\ b \in Nat
    BY <1>3, <2>0
  <2>2. Cardinality(OfKind(p, Openers, i)) = a + x /\ Cardinality(OfKind(p, Closers, i)) = b + y
    BY <1>4, Another
  <2>3. Depth(p, i) = (a + x) - (b + y) /\ Depth(p, i - 1) = a - b
    BY <1>1, <2>0, <2>2
  <2> HIDE DEF a, b, x, y
  <2>4. Depth(p, i) = Depth(p, i - 1) + x - y
    BY <2>0, <2>1, <2>3
  <2>. QED  BY <2>4 DEF x, y
<1>. QED  BY <1>1, <1>2, <1>3, <1>4

(* The depth changes by one at a block and not otherwise.                  *)
LEMMA DepthMoves ==
  ASSUME NEW p, NEW i \in Nat, i > 0
  PROVE  /\ Depth(p, i) \in Int /\ Depth(p, i - 1) \in Int
         /\ p[i].op \in Openers => Depth(p, i) = Depth(p, i - 1) + 1
         /\ p[i].op \in Closers => Depth(p, i) = Depth(p, i - 1) - 1
         /\ p[i].op \notin Openers \cup Closers => Depth(p, i) = Depth(p, i - 1)
<1> DEFINE x == IF p[i].op \in Openers THEN 1 ELSE 0
           y == IF p[i].op \in Closers THEN 1 ELSE 0
<1>1. Depth(p, i) = Depth(p, i - 1) + x - y
  BY DepthIs
<1>2. Depth(p, i) \in Int /\ Depth(p, i - 1) \in Int
  <2>1. i - 1 \in Nat
    OBVIOUS
  <2>. QED  BY <2>1, DepthIs
<1>3. CASE p[i].op \in Openers
  <2>1. x = 1 /\ y = 0 /\ p[i].op \notin Closers
    BY <1>3, Kinds
  <2> HIDE DEF x, y
  <2>. QED  BY <1>1, <1>2, <1>3, <2>1
<1>4. CASE p[i].op \in Closers
  <2>1. x = 0 /\ y = 1 /\ p[i].op \notin Openers
    BY <1>4, Kinds
  <2> HIDE DEF x, y
  <2>. QED  BY <1>1, <1>2, <1>4, <2>1
<1>5. CASE p[i].op \notin Openers \cup Closers
  <2>1. x = 0 /\ y = 0
    BY <1>5
  <2> HIDE DEF x, y
  <2>. QED  BY <1>1, <1>2, <1>5, <2>1
<1>. QED  BY <1>3, <1>4, <1>5, <1>2

(* The block on place k of the stack is k blocks deep, and nothing since   *)
(* was less deep; a closed block ends where the depth first falls; what    *)
(* belongs to a block is inside it.                                        *)
Deep(p, i, c) ==
    /\ Depth(p, i) = Len(c.stack)
    /\ \A k \in 1..Len(c.stack) :
         /\ Depth(p, c.stack[k]) = k
         /\ \A j \in c.stack[k]..i : Depth(p, j) >= k
    /\ \A s \in 1..i : p[s].op \in Openers /\ c.end[s] # 0 => EndsAt(p, s) = {c.end[s]}
Placed(p, i, c) ==
    /\ \A k \in 1..i : p[k].op \in Branches =>
         c.begin[k] \in Inside(p, k) /\ Innermost(Inside(p, k)) = c.begin[k]
    /\ \A b \in 1..i : p[b].op \in {"break", "continue"} =>
         \E s \in Inside(p, b) : p[s].op \in Loops

Stack(c) == {c.stack[k] : k \in 1..Len(c.stack)}

(* What is open before a line that ends nothing is what is around it.      *)
LEMMA InsideIs ==
  ASSUME NEW p \in Seq(Acts), NEW i \in 1..Len(p), NEW c \in Compiling(p),
         Structure(p, i - 1, c), Deep(p, i - 1, c), p[i].op \notin Closers
  PROVE  /\ Inside(p, i) = Stack(c)
         /\ c.stack # <<>> => Top(c) \in Stack(c) /\ Innermost(Stack(c)) = Top(c)
<1>1. Len(p) \in Nat /\ i \in Nat /\ i > 0 /\ i - 1 \in Nat /\ DOMAIN p = 1..Len(p)
  BY LenProperties
<1>2. Depth(p, i) \in Int /\ Depth(p, i - 1) \in Int /\ Depth(p, i) >= Depth(p, i - 1)
  <2>1. Depth(p, i) \in Int /\ Depth(p, i - 1) \in Int
    BY <1>1, DepthMoves
  <2>2. Depth(p, i) = Depth(p, i - 1) + 1 \/ Depth(p, i) = Depth(p, i - 1)
    BY <1>1, DepthMoves
  <2>. QED  BY <2>1, <2>2
<1> DEFINE m == Len(c.stack)
<1>3. m \in Nat
  BY LenProperties DEF Compiling
<1>4. /\ \A k \in 1..m : c.stack[k] \in 1..(i - 1) /\ p[c.stack[k]].op \in Openers /\ c.end[c.stack[k]] = 0
      /\ \A k, l \in 1..m : k < l => c.stack[k] < c.stack[l]
      /\ \A t \in 1..(i - 1) : p[t].op \in Openers /\ c.end[t] = 0 => \E k \in 1..m : c.stack[k] = t
  BY DEF Structure, Stacked
<1>5. /\ \A k \in 1..m : Depth(p, c.stack[k]) = k /\ \A j \in c.stack[k]..(i - 1) : Depth(p, j) >= k
      /\ \A s \in 1..(i - 1) : p[s].op \in Openers /\ c.end[s] # 0 => EndsAt(p, s) = {c.end[s]}
  BY DEF Deep
<1>6. Stack(c) = {c.stack[k] : k \in 1..m}
  BY DEF Stack
<1> HIDE DEF m
<1>7. ASSUME NEW k \in 1..m
      PROVE  c.stack[k] \in Inside(p, i)
  <2> DEFINE s == c.stack[k]
  <2>1. s \in 1..(i - 1) /\ p[s].op \in Openers /\ s \in DOMAIN p /\ s < i /\ s \in Int
    BY <1>1, <1>4
  <2>2. Depth(p, s) = k /\ \A j \in s..(i - 1) : Depth(p, j) >= k
    BY <1>5
  <2> HIDE DEF s
  <2>3. ASSUME NEW e \in EndsAt(p, s) PROVE i < e
    <3>1. e \in 1..Len(p) /\ e > s /\ Depth(p, e) < k /\ Depth(p, e) \in Int
      BY <1>1, <2>2, <2>3, DepthIs DEF EndsAt
    <3>2. ASSUME e <= i - 1 PROVE FALSE
      <4>1. e \in s..(i - 1)
        BY <1>1, <2>1, <3>1, <3>2
      <4>2. Depth(p, e) >= k
        BY <2>2, <4>1
      <4>. QED  BY <1>3, <3>1, <4>2
    <3>3. ASSUME e = i PROVE FALSE
      <4>1. i - 1 \in s..(i - 1)
        BY <1>1, <2>1
      <4>2. Depth(p, i - 1) >= k
        BY <2>2, <4>1
      <4>. QED  BY <1>2, <1>3, <3>1, <3>3, <4>2
    <3>. QED  BY <1>1, <3>1, <3>2, <3>3
  <2>4. s \in Inside(p, i)
    BY <2>1, <2>3 DEF Inside
  <2>. QED  BY <2>4 DEF s
<1>8. ASSUME NEW s \in Inside(p, i)
      PROVE  \E k \in 1..m : c.stack[k] = s
  <2>1. s \in 1..Len(p) /\ p[s].op \in Openers /\ s < i /\ \A e \in EndsAt(p, s) : i < e
    BY <1>1, <1>8 DEF Inside
  <2>2. s \in 1..(i - 1)
    BY <1>1, <2>1
  <2>3. CASE c.end[s] # 0
    <3>1. c.end[s] \in EndsAt(p, s)
      BY <1>5, <2>1, <2>2, <2>3
    <3>2. c.end[s] \in (s + 1)..(i - 1)
      BY <2>1, <2>2, <2>3 DEF Structure, OpenersPair
    <3>. QED  BY <1>1, <2>1, <3>1, <3>2
  <2>. QED  BY <1>4, <2>1, <2>2, <2>3
<1>9. Inside(p, i) = Stack(c)
  BY <1>6, <1>7, <1>8
<1>10. ASSUME c.stack # <<>>
       PROVE  Top(c) \in Stack(c) /\ Innermost(Stack(c)) = Top(c)
  <2>1. m \in 1..m /\ Top(c) = c.stack[m]
    BY <1>10, TopIs DEF Top, m
  <2>2. Top(c) \in Stack(c)
    BY <1>6, <2>1
  <2>3. ASSUME NEW x \in Stack(c) PROVE x \in Int /\ x <= Top(c)
    <3>1. PICK k \in 1..m : x = c.stack[k]
      BY <1>6, <2>3
    <3>2. x \in Int /\ Top(c) \in Int
      BY <1>4, <2>1, <3>1
    <3>3. CASE k = m
      BY <2>1, <3>1, <3>2, <3>3
    <3>4. CASE k # m
      <4>1. k < m
        BY <1>3, <3>4
      <4>. QED  BY <1>4, <2>1, <3>1, <3>2, <4>1
    <3>. QED  BY <3>3, <3>4
  <2>4. \A x \in Stack(c) : (\A y \in Stack(c) : y <= x) => x = Top(c)
    BY <2>2, <2>3
  <2>. QED  BY <2>2, <2>3, <2>4 DEF Innermost
<1>. QED  BY <1>9, <1>10

(* A line that ends a block: the depth first falls there.                  *)
LEMMA FallsHere ==
  ASSUME NEW p \in Seq(Acts), NEW i \in 1..Len(p), NEW c \in Compiling(p),
         Structure(p, i - 1, c), Deep(p, i - 1, c), p[i].op \in Closers
  PROVE  /\ Depth(p, i) = Len(c.stack) - 1
         /\ c.stack # <<>> => EndsAt(p, Top(c)) = {i}
<1>1. Len(p) \in Nat /\ i \in Nat /\ i > 0 /\ i - 1 \in Nat /\ DOMAIN p = 1..Len(p)
  BY LenProperties
<1> DEFINE m == Len(c.stack)
<1>2. m \in Nat
  BY LenProperties DEF Compiling
<1>3. Depth(p, i) = m - 1
  <2>1. Depth(p, i) = Depth(p, i - 1) - 1
    BY <1>1, DepthMoves
  <2>2. Depth(p, i - 1) = m
    BY DEF Deep
  <2>. QED  BY <2>1, <2>2
<1>4. ASSUME c.stack # <<>> PROVE EndsAt(p, Top(c)) = {i}
  <2> DEFINE s == Top(c)
  <2>1. m \in 1..m /\ s = c.stack[m]
    BY <1>4, TopIs DEF Top
  <2>2. Depth(p, s) = m /\ \A j \in s..(i - 1) : Depth(p, j) >= m
    BY <2>1 DEF Deep
  <2>3. s \in 1..(i - 1)
    BY <1>4, TopIsInnermost
  <2> HIDE DEF m, s
  <2>4. i \in EndsAt(p, s)
    BY <1>1, <1>2, <1>3, <2>2, <2>3 DEF EndsAt
  <2>5. ASSUME NEW e \in EndsAt(p, s) PROVE e = i
    <3>1. e \in 1..Len(p) /\ e > s /\ Depth(p, e) < m /\ \A k \in s..(e - 1) : Depth(p, k) >= m
      BY <1>1, <2>2, <2>5 DEF EndsAt
    <3>2. Depth(p, e) \in Int
      BY <3>1, DepthIs
    <3>3. ASSUME e < i PROVE FALSE
      <4>1. e \in s..(i - 1)
        BY <1>1, <2>3, <3>1, <3>3
      <4>. QED  BY <1>2, <2>2, <3>1, <3>2, <4>1
    <3>4. ASSUME e > i PROVE FALSE
      <4>1. i \in s..(e - 1)
        BY <1>1, <2>3, <3>1, <3>4
      <4>. QED  BY <1>2, <1>3, <3>1, <4>1
    <3>. QED  BY <1>1, <3>1, <3>3, <3>4
  <2>6. EndsAt(p, s) = {i}
    BY <2>4, <2>5
  <2>. QED  BY <2>6 DEF s
<1>. QED  BY <1>3, <1>4

LEMMA DeepKeeps ==
  ASSUME NEW p \in Seq(Acts), NEW i \in 1..Len(p), NEW c \in Compiling(p), NEW d \in Compiling(p),
         Structure(p, i - 1, c), Deep(p, i - 1, c), Accepts(p, c, i, d), Structure(p, i, d)
  PROVE  Deep(p, i, d)
<1>1. Len(p) \in Nat /\ i \in Nat /\ i > 0 /\ i - 1 \in Nat
  BY LenProperties
<1> DEFINE m == Len(c.stack)
<1>2. m \in Nat /\ Len(d.stack) \in Nat
  BY LenProperties DEF Compiling
<1>3. /\ \A k \in 1..m : c.stack[k] \in 1..(i - 1)
      /\ \A k \in 1..m : Depth(p, c.stack[k]) = k /\ \A j \in c.stack[k]..(i - 1) : Depth(p, j) >= k
      /\ \A s \in 1..(i - 1) : p[s].op \in Openers /\ c.end[s] # 0 => EndsAt(p, s) = {c.end[s]}
      /\ Depth(p, i - 1) = m
  BY DEF Deep, Structure, Stacked
(* A step that opens or closes nothing.                                    *)
<1>4. ASSUME d.stack = c.stack, d.end = c.end, p[i].op \notin Openers \cup Closers
      PROVE  Deep(p, i, d)
  <2>1. Depth(p, i) = m
    BY <1>1, <1>3, <1>4, DepthMoves
  <2>2. ASSUME NEW k \in 1..m, NEW j \in c.stack[k]..i PROVE Depth(p, j) >= k
    <3>1. CASE j = i
      BY <1>2, <2>1, <3>1
    <3>2. CASE j # i
      <4>1. j \in c.stack[k]..(i - 1)
        BY <1>1, <1>3, <2>2, <3>2
      <4>. QED  BY <1>3, <4>1
    <3>. QED  BY <3>1, <3>2
  <2>3. \A s \in 1..i : p[s].op \in Openers /\ c.end[s] # 0 => EndsAt(p, s) = {c.end[s]}
    BY <1>1, <1>3, <1>4
  <2>. QED  BY <1>3, <1>4, <2>1, <2>2, <2>3 DEF Deep
<1>5. CASE SkipsOver(p, c, i, d) \/ Divides(p, c, i, d) \/ Leaves(p, c, i, d)
  <2>1. p[i].op \notin Openers \cup Closers
    BY <1>5, Kinds DEF SkipsOver, Divides, Leaves
  <2>2. d.stack = c.stack /\ d.end = c.end
    BY <1>5 DEF SkipsOver, Divides, Leaves
  <2>. QED  BY <1>4, <2>1, <2>2
<1>6. CASE Opens(p, c, i, d)
  <2>1. /\ Len(d.stack) = m + 1 /\ d.stack[m + 1] = i /\ d.end = c.end
        /\ \A k \in 1..m : d.stack[k] = c.stack[k]
    BY <1>6, PushIs DEF Opens, Compiling
  <2>2. Depth(p, i) = m + 1
    BY <1>1, <1>3, <1>6, DepthMoves, SMTT(30) DEF Opens
  <2> HIDE DEF m
  <2>3. ASSUME NEW k \in 1..m
        PROVE  Depth(p, c.stack[k]) = k /\ \A j \in c.stack[k]..i : Depth(p, j) >= k
    <3>1. ASSUME NEW j \in c.stack[k]..i PROVE Depth(p, j) >= k
      <4>1. CASE j = i
        BY <1>2, <2>2, <4>1
      <4>2. CASE j # i
        <5>1. j \in c.stack[k]..(i - 1)
          BY <1>1, <1>3, <4>2
        <5>. QED  BY <1>3, <5>1
      <4>. QED  BY <4>1, <4>2
    <3>. QED  BY <1>3, <3>1
  <2>4. ASSUME NEW k \in 1..Len(d.stack)
        PROVE  Depth(p, d.stack[k]) = k /\ \A j \in d.stack[k]..i : Depth(p, j) >= k
    <3>1. CASE k \in 1..m
      BY <2>1, <2>3, <3>1
    <3>2. CASE k = m + 1
      <4>1. \A j \in i..i : j = i
        BY <1>1
      <4>. QED  BY <1>2, <2>1, <2>2, <3>2, <4>1
    <3>. QED  BY <1>2, <2>1, <3>1, <3>2
  <2>5. \A s \in 1..i : p[s].op \in Openers /\ d.end[s] # 0 => EndsAt(p, s) = {d.end[s]}
    <3>1. c.end[i] = 0
      BY <1>1 DEF Structure, Unset
    <3>. QED  BY <1>1, <1>3, <2>1, <3>1
  <2>. QED  BY <2>1, <2>2, <2>4, <2>5 DEF Deep
<1>7. CASE Ends(p, c, i, d)
  <2> DEFINE s == Top(c)
  <2>1. c.stack # <<>> /\ p[i].op \in Closers /\ d.stack = SubSeq(c.stack, 1, Len(c.stack) - 1)
    BY <1>7 DEF Ends
  <2>2. Depth(p, i) = m - 1 /\ EndsAt(p, s) = {i}
    BY <2>1, FallsHere
  <2>3. Len(d.stack) = m - 1 /\ \A k \in 1..Len(d.stack) : d.stack[k] = c.stack[k]
    <3>1. c.stack \in Seq(1..Len(p))
      BY DEF Compiling
    <3>. QED  BY <2>1, <3>1, PopIs
  <2>4. s \in 1..(i - 1) /\ c.end[s] = 0 /\ c.begin[s] = 0
    BY <2>1, TopIsInnermost
  <2>5. d.end = [j \in 1..Len(p) |->
                   IF j = s \/ (s < j /\ j < i /\ c.begin[j] = s) THEN i ELSE c.end[j]]
    BY <1>7 DEF Ends
  <2> HIDE DEF m, s
  <2>6. ASSUME NEW k \in 1..Len(d.stack)
        PROVE  Depth(p, d.stack[k]) = k /\ \A j \in d.stack[k]..i : Depth(p, j) >= k
    <3>1. k \in 1..m /\ k <= m - 1 /\ d.stack[k] = c.stack[k]
      BY <1>2, <2>3
    <3>2. ASSUME NEW j \in c.stack[k]..i PROVE Depth(p, j) >= k
      <4>1. CASE j = i
        BY <1>2, <2>2, <3>1, <4>1
      <4>2. CASE j # i
        <5>1. j \in c.stack[k]..(i - 1)
          BY <1>1, <1>3, <3>1, <4>2
        <5>. QED  BY <1>3, <3>1, <5>1
      <4>. QED  BY <4>1, <4>2
    <3>. QED  BY <1>3, <3>1, <3>2
  <2>7. ASSUME NEW t \in 1..i, p[t].op \in Openers, d.end[t] # 0
        PROVE  EndsAt(p, t) = {d.end[t]}
    <3>1. t \in 1..(i - 1) /\ t \in 1..Len(p)
      BY <1>1, <2>1, <2>7, Kinds
    <3>2. c.begin[t] = 0
      BY <2>7, <3>1 DEF Structure, Unset
    <3>3. CASE t = s
      BY <2>2, <2>5, <3>1, <3>3
    <3>4. CASE t # s
      <4>1. d.end[t] = c.end[t]
        BY <1>1, <2>4, <2>5, <3>1, <3>2, <3>4
      <4>. QED  BY <1>3, <2>7, <3>1, <4>1
    <3>. QED  BY <3>3, <3>4
  <2>. QED  BY <2>2, <2>3, <2>6, <2>7 DEF Deep
<1>. QED  BY <1>5, <1>6, <1>7 DEF Accepts

LEMMA PlacedKeeps ==
  ASSUME NEW p \in Seq(Acts), NEW i \in 1..Len(p), NEW c \in Compiling(p), NEW d \in Compiling(p),
         Structure(p, i - 1, c), Deep(p, i - 1, c), Placed(p, i - 1, c), Accepts(p, c, i, d)
  PROVE  Placed(p, i, d)
<1>1. Len(p) \in Nat /\ i \in Nat /\ c.begin \in Lines(p)
  BY LenProperties DEF Compiling
<1>2. \A j \in 1..(i - 1) : d.begin[j] = c.begin[j]
  <2>1. d.begin = c.begin \/ \E v : d.begin = [c.begin EXCEPT ![i] = v]
    BY DEF Accepts, SkipsOver, Opens, Divides, Ends, Leaves
  <2>2. \A j \in 1..(i - 1) : j \in 1..Len(p) /\ j # i
    BY <1>1
  <2>. QED  BY <1>1, <2>1, <2>2 DEF Lines
<1>3. ASSUME p[i].op \in Branches
      PROVE  d.begin[i] \in Inside(p, i) /\ Innermost(Inside(p, i)) = d.begin[i]
  <2>1. Divides(p, c, i, d)
    BY <1>3, Kinds DEF Accepts, SkipsOver, Opens, Ends, Leaves
  <2>2. c.stack # <<>> /\ d.begin[i] = Top(c)
    BY <1>1, <2>1 DEF Divides, Lines
  <2>3. p[i].op \notin Closers
    BY <1>3, Kinds
  <2>. QED  BY <2>2, <2>3, InsideIs
<1>4. ASSUME p[i].op \in {"break", "continue"}
      PROVE  \E s \in Inside(p, i) : p[s].op \in Loops
  <2>1. Leaves(p, c, i, d)
    BY <1>4, Kinds DEF Accepts, SkipsOver, Opens, Ends, Divides
  <2>2. PICK k \in 1..Len(c.stack) : p[c.stack[k]].op \in Loops
    BY <2>1 DEF Leaves, IsLoop
  <2>3. p[i].op \notin Closers
    BY <1>4, Kinds
  <2>4. c.stack[k] \in Inside(p, i)
    <3>1. Inside(p, i) = Stack(c)
      BY <2>3, InsideIs
    <3>. QED  BY <3>1 DEF Stack
  <2>. QED  BY <2>2, <2>4
<1>5. \A j \in 1..i : j = i \/ j \in 1..(i - 1)
  BY <1>1
<1>. QED  BY <1>2, <1>3, <1>4, <1>5 DEF Placed

(* The stack is as high as the nesting is deep, all along.                 *)
LEMMA RunsDeep ==
  ASSUME NEW p \in Seq(Acts), NEW r, Runs(p, Len(p), r), NEW n \in 0..Len(p), ~r[n].error
  PROVE  Deep(p, n, r[n]) /\ Placed(p, n, r[n])
<1>1. Len(p) \in Nat
  BY LenProperties
<1> DEFINE P == {i \in 0..Len(p) : ~r[i].error => Deep(p, i, r[i]) /\ Placed(p, i, r[i])}
<1>2. 0 \in P
  <2>1. r[0] = Nothing(p)
    BY RunStep
  <2> DEFINE c == Nothing(p)
  <2>2. c.stack = <<>>
    BY DEF Nothing
  <2>3. Len(c.stack) = 0
    BY <2>2, EmptySeq
  <2> HIDE DEF c
  <2>4. Deep(p, 0, c)
    BY <2>3, DepthIs DEF Deep
  <2>5. Placed(p, 0, c)
    BY DEF Placed
  <2>6. 0 \in 0..Len(p)
    BY <1>1
  <2>. QED  BY <2>1, <2>4, <2>5, <2>6 DEF c
<1>3. ASSUME NEW i \in 1..Len(p), i - 1 \in P PROVE i \in P
  <2>1. SUFFICES ASSUME ~r[i].error PROVE Deep(p, i, r[i]) /\ Placed(p, i, r[i])
    BY <1>1
  <2>2. /\ r[i - 1] \in Compiling(p) /\ ~r[i - 1].error /\ Structure(p, i - 1, r[i - 1])
        /\ r[i] \in Compiling(p) /\ Structure(p, i, r[i])
        /\ Accepts(p, r[i - 1], i, r[i])
    BY <2>1, RunAccepts
  <2>3. Deep(p, i - 1, r[i - 1]) /\ Placed(p, i - 1, r[i - 1])
    BY <1>3, <2>2
  <2>. QED  BY <2>2, <2>3, DeepKeeps, PlacedKeeps
<1> HIDE DEF P
<1>4. 0..Len(p) \subseteq P
  BY <1>1, <1>2, <1>3, Induction
<1>. QED  BY <1>4 DEF P

-----------------------------------------------------------------------------
(* What is accepted is legal, and what is rejected is not.                 *)
ElsesOf(p, i) == {k \in DOMAIN p : /\ p[k].op = "else" /\ i \in Inside(p, k)
                                   /\ Innermost(Inside(p, k)) = i}

(* A run not rejected at its end was never rejected.                       *)
LEMMA NoneRejected ==
  ASSUME NEW p \in Seq(Acts), NEW r, Runs(p, Len(p), r), ~r[Len(p)].error
  PROVE  \A i \in 0..Len(p) : ~r[i].error
<1>1. Len(p) \in Nat
  BY LenProperties
<1> DEFINE Q == {j \in 0..Len(p) : ~r[Len(p) - j].error}
<1>2. 0 \in Q
  <2>1. Len(p) - 0 = Len(p) /\ 0 \in 0..Len(p)
    BY <1>1
  <2>. QED  BY <2>1
<1>3. ASSUME NEW j \in 1..Len(p), j - 1 \in Q PROVE j \in Q
  <2> DEFINE h == Len(p) - (j - 1)
  <2>1. h \in 1..Len(p) /\ h - 1 = Len(p) - j /\ j \in 0..Len(p)
    BY <1>1
  <2>2. ~r[h].error
    BY <1>3
  <2> HIDE DEF h
  <2>3. ~r[h - 1].error
    BY <2>1, <2>2, RunAccepts
  <2>. QED  BY <2>1, <2>3
<1> HIDE DEF Q
<1>4. 0..Len(p) \subseteq Q
  BY <1>1, <1>2, <1>3, Induction
<1>5. ASSUME NEW i \in 0..Len(p) PROVE ~r[i].error
  <2> DEFINE j == Len(p) - i
  <2>1. j \in 0..Len(p) /\ Len(p) - j = i
    BY <1>1
  <2> HIDE DEF j
  <2>. QED  BY <1>4, <2>1 DEF Q
<1>. QED  BY <1>5

(* What compileFlow accepts is well nested, and its ends are the ends.     *)
LEMMA AcceptedIsLegal ==
  ASSUME NEW p \in Seq(Acts), ~compileFlow(p).error
  PROVE  /\ Legal(p)
         /\ \A i \in DOMAIN p : p[i].op \in Openers => EndsAt(p, i) = {compileFlow(p).end[i]}
<1>1. PICK r : Runs(p, Len(p), r) /\ compileFlow(p) = Finished(r[Len(p)])
  BY CompileRuns
<1>2. Len(p) \in Nat /\ DOMAIN p = 1..Len(p) /\ Len(p) \in 0..Len(p)
  BY LenProperties
<1> DEFINE c == r[Len(p)]
           f == compileFlow(p)
<1>3. c \in Compiling(p) /\ (~c.error => Structure(p, Len(p), c) /\ Deep(p, Len(p), c) /\ Placed(p, Len(p), c))
  BY <1>1, <1>2, RunsClean, RunsDeep DEF Clean
<1>4. f = Finished(c) /\ ~f.error
  BY <1>1
<1>5. WellPaired(p, f)
  BY PairsWell
<1> HIDE DEF c, f
<1>6. /\ f.end = c.end /\ f.begin = c.begin /\ f.otherwise = c.otherwise
      /\ ~c.error /\ c.stack = <<>>
  BY <1>3, <1>4 DEF Finished, Compiling
<1>7. /\ \A s \in 1..Len(p) : p[s].op \in Openers /\ f.end[s] # 0 => EndsAt(p, s) = {f.end[s]}
      /\ \A k \in 1..Len(p) : p[k].op \in Branches =>
           f.begin[k] \in Inside(p, k) /\ Innermost(Inside(p, k)) = f.begin[k]
      /\ \A b \in 1..Len(p) : p[b].op \in {"break", "continue"} =>
           \E s \in Inside(p, b) : p[s].op \in Loops
  BY <1>3, <1>6 DEF Deep, Placed
<1>8. \A s \in 1..Len(p) : p[s].op \in Openers => EndsAt(p, s) = {f.end[s]} /\ Matches(p[s].op, p[f.end[s]].op)
  <2>1. \A s \in 1..Len(p) : p[s].op \in Openers =>
           f.end[s] \in (s + 1)..Len(p) /\ Matches(p[s].op, p[f.end[s]].op)
    BY <1>5 DEF WellPaired
  <2>2. \A s \in 1..Len(p) : p[s].op \in Openers => f.end[s] # 0
    BY <1>2, <2>1
  <2>. QED  BY <1>7, <2>1, <2>2
<1>9. ASSUME NEW i \in 1..Len(p) PROVE Depth(p, i) \in 0..MaxNesting
  <2>1. i \in 0..Len(p) /\ ~r[i].error
    BY <1>1, <1>2, <1>6, NoneRejected DEF c
  <2>2. Structure(p, i, r[i]) /\ Deep(p, i, r[i]) /\ r[i] \in Compiling(p)
    BY <1>1, <2>1, RunAccepts, RunsDeep
  <2> DEFINE s == r[i].stack
  <2>3. s \in Seq(1..Len(p)) /\ Depth(p, i) = Len(s) /\ Len(s) <= MaxNesting
    BY <2>2 DEF Compiling, Deep, Structure, Stacked
  <2> HIDE DEF s
  <2>4. Len(s) \in Nat /\ MaxNesting \in Nat
    BY <2>3, LenProperties, ProgramsAssumption
  <2>. QED  BY <2>3, <2>4
<1>10. Depth(p, Len(p)) = 0
  <2>1. Depth(p, Len(p)) = Len(c.stack)
    BY <1>3, <1>6 DEF Deep
  <2>. QED  BY <1>6, <2>1, EmptySeq
<1>11. ASSUME NEW i \in 1..Len(p) PROVE Cardinality(ElsesOf(p, i)) <= 1
  <2>1. ElsesOf(p, i) \in SUBSET {f.otherwise[i]}
    <3>1. ASSUME NEW k \in ElsesOf(p, i) PROVE k = f.otherwise[i]
      <4>1. k \in 1..Len(p) /\ p[k].op = "else" /\ Innermost(Inside(p, k)) = i
        BY <1>2, <3>1 DEF ElsesOf
      <4>2. f.begin[k] = i
        BY <1>7, <4>1 DEF Branches
      <4>. QED  BY <1>5, <4>1, <4>2 DEF WellPaired, Branches
    <3>. QED  BY <3>1
  <2>2. IsFiniteSet({f.otherwise[i]}) /\ Cardinality({f.otherwise[i]}) = 1
    BY FS_Singleton
  <2>. QED  BY <2>1, <2>2, FS_Subset
<1>12. ASSUME NEW k \in 1..Len(p), p[k].op \in Branches
       PROVE  /\ Inside(p, k) # {}
              /\ p[Innermost(Inside(p, k))].op = (IF p[k].op = "else" THEN "if" ELSE "switch")
  BY <1>5, <1>7, <1>12 DEF WellPaired, BelongsTo
<1>13. \A k \in 1..Len(p) : p[k].op = "jump" => p[k].n \in DOMAIN p
  BY <1>2, <1>5 DEF WellPaired
<1>14. Legal(p)
  BY <1>2, <1>7, <1>8, <1>9, <1>10, <1>11, <1>12, <1>13 DEF Legal, ElsesOf
<1>. QED  BY <1>2, <1>8, <1>14 DEF f

(* Each reason to reject an action is a fault of the nesting.              *)
LEMMA RejectedIsIllegal ==
  ASSUME NEW p \in Seq(Acts), NEW i \in 1..Len(p), NEW c \in Compiling(p),
         Structure(p, i - 1, c), Deep(p, i - 1, c), Placed(p, i - 1, c), Rejects(p, c, i)
  PROVE  ~Legal(p)
<1>1. Len(p) \in Nat /\ DOMAIN p = 1..Len(p) /\ i \in Nat /\ i > 0 /\ MaxNesting \in Nat
  BY LenProperties, ProgramsAssumption
<1>2. Len(c.stack) \in Nat /\ Depth(p, i - 1) = Len(c.stack)
  BY LenProperties DEF Compiling, Deep
<1>3. SUFFICES ASSUME Legal(p) PROVE FALSE
  OBVIOUS
<1>4. /\ Depth(p, i) \in 0..MaxNesting
      /\ p[i].op = "jump" => p[i].n \in DOMAIN p
      /\ p[i].op \in Branches => /\ Inside(p, i) # {}
             /\ p[Innermost(Inside(p, i))].op = (IF p[i].op = "else" THEN "if" ELSE "switch")
      /\ p[i].op \in {"break", "continue"} => \E s \in Inside(p, i) : p[s].op \in Loops
      /\ \A s \in 1..Len(p) : p[s].op \in Openers =>
           /\ \A e \in EndsAt(p, s) : Matches(p[s].op, p[e].op)
           /\ Cardinality(ElsesOf(p, s)) <= 1
  BY <1>1, <1>3 DEF Legal, ElsesOf
<1>5. CASE p[i].op = "jump" /\ p[i].n \notin DOMAIN p
  BY <1>4, <1>5
<1>6. CASE p[i].op \in Openers /\ Len(c.stack) + 1 > MaxNesting
  <2>1. Depth(p, i) = Len(c.stack) + 1
    BY <1>1, <1>2, <1>6, DepthMoves
  <2>. QED  BY <1>1, <1>2, <1>4, <1>6, <2>1
<1>7. CASE /\ p[i].op \in Branches
           /\ \/ c.stack = <<>> \/ p[Top(c)].op # BelongsTo(p[i].op)
              \/ p[i].op = "else" /\ c.otherwise[Top(c)] # 0
  <2>1. /\ Inside(p, i) = Stack(c)
        /\ c.stack # <<>> => Top(c) \in Stack(c) /\ Innermost(Stack(c)) = Top(c)
    BY <1>7, Kinds, InsideIs
  <2>2. c.stack # <<>>
    <3>1. SUFFICES ASSUME c.stack = <<>> PROVE FALSE
      OBVIOUS
    <3>2. Len(c.stack) = 0
      BY <3>1, EmptySeq
    <3>. QED  BY <1>4, <1>7, <2>1, <3>2 DEF Stack
  <2>3. p[Top(c)].op = BelongsTo(p[i].op)
    BY <1>4, <1>7, <2>1, <2>2 DEF BelongsTo
  <2>4. p[i].op = "else" /\ c.otherwise[Top(c)] # 0
    BY <1>7, <2>2, <2>3
  <2> DEFINE s == Top(c)
             k == c.otherwise[s]
  <2>5. s \in 1..(i - 1) /\ s \in 1..Len(p) /\ p[s].op \in Openers
    BY <1>1, <2>2, TopIsInnermost
  <2>6. k \in 1..(i - 1) /\ p[k].op = "else" /\ c.begin[k] = s
    BY <2>4, <2>5 DEF Structure, ElsesPair
  <2>7. s \in Inside(p, k) /\ Innermost(Inside(p, k)) = s
    BY <2>6 DEF Placed, Branches
  <2>8. s \in Inside(p, i) /\ Innermost(Inside(p, i)) = s
    BY <2>1, <2>2
  <2> HIDE DEF s, k
  <2>9. k \in ElsesOf(p, s) /\ i \in ElsesOf(p, s) /\ k # i
    BY <1>1, <2>4, <2>6, <2>7, <2>8 DEF ElsesOf
  <2>10. IsFiniteSet(ElsesOf(p, s))
    <3>1. ElsesOf(p, s) \in SUBSET (1..Len(p))
      BY <1>1 DEF ElsesOf
    <3>2. IsFiniteSet(1..Len(p))
      BY <1>1, FS_Interval
    <3>. QED  BY <3>1, <3>2, FS_Subset
  <2>11. Cardinality({k, i}) = 2
    <3>1. IsFiniteSet({k}) /\ Cardinality({k}) = 1 /\ {k, i} = {k} \cup {i} /\ i \notin {k}
      BY <2>9, FS_Singleton
    <3>2. Cardinality({k} \cup {i}) = Cardinality({k}) + 1
      BY <3>1, FS_AddElement
    <3> DEFINE a == Cardinality({k})
               b == Cardinality({k} \cup {i})
    <3>3. a = 1 /\ b = a + 1
      BY <3>1, <3>2
    <3> HIDE DEF a, b
    <3>4. b = 2
      BY <3>3
    <3>. QED  BY <3>1, <3>4, Zenon DEF b
  <2>12. Cardinality(ElsesOf(p, s)) >= 2
    <3>1. {k, i} \in SUBSET ElsesOf(p, s)
      BY <2>9
    <3>2. Cardinality({k, i}) <= Cardinality(ElsesOf(p, s)) /\ Cardinality(ElsesOf(p, s)) \in Nat
      BY <2>10, <3>1, FS_Subset, FS_CardinalityType
    <3>. QED  BY <2>11, <3>2
  <2>13. Cardinality(ElsesOf(p, s)) \in Nat
    BY <2>10, FS_CardinalityType
  <2>. QED  BY <1>4, <2>5, <2>12, <2>13
<1>8. CASE p[i].op \in Closers /\ (c.stack = <<>> \/ ~Matches(p[Top(c)].op, p[i].op))
  <2>1. Depth(p, i) = Len(c.stack) - 1 /\ (c.stack # <<>> => EndsAt(p, Top(c)) = {i})
    BY <1>8, FallsHere
  <2>2. CASE c.stack = <<>>
    <3>1. Len(c.stack) = 0
      BY <2>2, EmptySeq
    <3>. QED  BY <1>1, <1>4, <2>1, <3>1
  <2>3. CASE c.stack # <<>>
    <3>1. Top(c) \in 1..Len(p) /\ p[Top(c)].op \in Openers
      BY <1>1, <2>3, TopIsInnermost
    <3>. QED  BY <1>4, <1>8, <2>1, <2>3, <3>1
  <2>. QED  BY <2>2, <2>3
<1>9. CASE p[i].op \in {"break", "continue"} /\ \A k \in 1..Len(c.stack) : ~IsLoop(p, c, k)
  <2>1. Inside(p, i) = Stack(c)
    BY <1>9, Kinds, InsideIs
  <2>. QED  BY <1>4, <1>9, <2>1 DEF Stack, IsLoop
<1>. QED  BY <1>5, <1>6, <1>7, <1>8, <1>9 DEF Rejects

(* What is well nested is accepted.                                        *)
LEMMA LegalIsAccepted ==
  ASSUME NEW p \in Seq(Acts), compileFlow(p).error
  PROVE  ~Legal(p)
<1>1. PICK r : Runs(p, Len(p), r) /\ compileFlow(p) = Finished(r[Len(p)])
  BY CompileRuns
<1>2. Len(p) \in Nat /\ DOMAIN p = 1..Len(p) /\ Len(p) \in 0..Len(p)
  BY LenProperties
<1> DEFINE c == r[Len(p)]
           f == compileFlow(p)
<1>3. c \in Compiling(p) /\ (~c.error => Deep(p, Len(p), c))
  BY <1>1, <1>2, RunsClean, RunsDeep DEF Clean
<1>4. f = Finished(c) /\ f.error
  BY <1>1
<1> HIDE DEF c, f
<1>5. c.error \/ c.stack # <<>>
  BY <1>3, <1>4 DEF Finished, Compiling
<1>6. CASE ~c.error
  <2>1. Depth(p, Len(p)) = Len(c.stack) /\ c.stack \in Seq(1..Len(p)) /\ c.stack # <<>>
    BY <1>3, <1>5, <1>6 DEF Deep, Compiling
  <2>2. Len(c.stack) # 0
    BY <2>1, EmptySeq
  <2>. QED  BY <2>1, <2>2 DEF Legal
<1>7. CASE c.error
  <2> DEFINE T == {i \in 0..Len(p) : r[i].error}
  <2>1. T \subseteq Nat /\ T # {}
    BY <1>2, <1>7 DEF c
  <2> HIDE DEF T
  <2>2. PICK i \in T : \A y \in T : ~(y < i)
    BY <2>1, Least
  <2>3. i \in 0..Len(p) /\ r[i].error
    BY <2>2 DEF T
  <2>4. i # 0
    <3>1. ~Nothing(p).error /\ r[0] = Nothing(p)
      BY <1>1, AtFirst, RunStep
    <3>. QED  BY <2>3, <3>1
  <2>5. i \in 1..Len(p) /\ i - 1 \in 0..Len(p) /\ i - 1 \notin T
    BY <1>2, <2>2, <2>3, <2>4
  <2>6. ~r[i - 1].error
    BY <2>5 DEF T
  <2> DEFINE b == r[i - 1]
  <2>7. b \in Compiling(p) /\ Structure(p, i - 1, b) /\ Deep(p, i - 1, b) /\ Placed(p, i - 1, b) /\ ~b.error
    BY <1>1, <2>5, <2>6, RunsClean, RunsDeep DEF Clean
  <2>8. CompileAction(p, b, i).error
    BY <1>1, <2>3, <2>5, RunStep
  <2> HIDE DEF b
  <2>9. Rejects(p, b, i)
    BY <2>5, <2>7, <2>8, NotRejected
  <2>. QED  BY <2>5, <2>7, <2>9, RejectedIsIllegal
<1>. QED  BY <1>6, <1>7

LEMMA CompileFits ==
  FlowInv => CompilesTheNesting
<1>1. SUFFICES ASSUME FlowInv PROVE CompilesTheNesting
  OBVIOUS
<1>2. program \in Seq(Acts) /\ flow = compileFlow(program)
  BY <1>1, ProgramsAssumption DEF FlowInv, Values
<1>3. flow.error <=> ~Legal(program)
  BY <1>2, AcceptedIsLegal, LegalIsAccepted
<1>. QED  BY <1>2, <1>3, AcceptedIsLegal DEF CompilesTheNesting

-----------------------------------------------------------------------------
(* A branch compiles alongside the program it is cut out of.               *)
SelfContained(p, f, i) ==
    \A k \in (i + 1)..(f.end[i] - 1) :
      /\ p[k].op \in {"break", "continue"} => f.begin[k] > i
      /\ p[k].op = "jump" => p[k].n \in (i + 1)..(f.end[i] - 1)

(* The stack of the branch is the upper part of the other one.             *)
Alongside(i, m, h, c, d) ==
    /\ Len(c.stack) = h + Len(d.stack) /\ c.stack[h] = i
    /\ \A k \in 1..Len(d.stack) : c.stack[h + k] = d.stack[k] + i
    /\ \A s \in 1..m : d.otherwise[s] # 0 <=> c.otherwise[s + i] # 0

(* The branch cut out of a parallel block is a program.                    *)
LEMMA BranchIs ==
  ASSUME NEW p \in Seq(Acts), NEW f, f = compileFlow(p), ~f.error,
         NEW i \in 1..Len(p), p[i].op = "parallel", SelfContained(p, f, i)
  PROVE  LET q == Branch(p, i)
             m == f.end[i] - i - 1
         IN  /\ m \in Nat /\ i + m + 1 = f.end[i] /\ i + m + 1 \in 1..Len(p)
             /\ q \in Seq(Acts) /\ Len(q) = m
             /\ \A k \in 1..m : q[k].op = p[i + k].op
             /\ \A k \in 1..m : q[k].op = "jump" => q[k].n \in 1..m
<1> DEFINE q == Branch(p, i)
           m == f.end[i] - i - 1
<1>1. Len(p) \in Nat
  BY LenProperties
<1>2. i < f.end[i] /\ f.end[i] \in 1..Len(p)
  BY PairsWell, Apart DEF Openers
<1>3. m \in Nat /\ i + m + 1 = f.end[i] /\ i + m + 1 \in 1..Len(p)
  BY <1>1, <1>2
<1>4. q = [k \in 1..m |->
              IF p[i + k].op = "jump" THEN [p[i + k] EXCEPT !.n = @ - i] ELSE p[i + k]]
  BY DEF Branch
<1> HIDE DEF q
<1>5. \A k \in 1..m : i + k \in 1..Len(p) /\ i + k \in (i + 1)..(f.end[i] - 1)
  BY <1>1, <1>2
<1> HIDE DEF m
<1>6. ASSUME NEW k \in 1..m
      PROVE  q[k] \in Acts /\ q[k].op = p[i + k].op /\ (q[k].op = "jump" => q[k].n \in 1..m)
  <2> DEFINE a == p[i + k]
  <2>1. a \in Acts
    BY <1>5, ElementOfSeq
  <2>2. a.op = "jump" => a.n - i \in 1..m
    <3>1. a.op = "jump" => a.n \in (i + 1)..(f.end[i] - 1)
      BY <1>5 DEF SelfContained
    <3>2. a.n \in Nat /\ i \in Nat
      BY <1>1, <2>1 DEF Acts
    <3> HIDE DEF a
    <3>. QED  BY <1>2, <1>1, <3>1, <3>2, SMTT(30) DEF m
  <2>3. q[k] = IF a.op = "jump" THEN [a EXCEPT !.n = @ - i] ELSE a
    BY <1>4
  <2> HIDE DEF a
  <2>4. CASE a.op = "jump"
    <3>1. q[k] = [a EXCEPT !.n = a.n - i]
      BY <2>3, <2>4
    <3> DEFINE v == a.n - i
               O == Openers \cup Closers \cup Branches \cup Others
    <3>a. v \in 1..m /\ q[k] = [a EXCEPT !.n = v]
      BY <2>2, <2>4, <3>1
    <3>b. a \in [op : O, n : Nat] /\ Acts = [op : O, n : Nat]
      BY <2>1 DEF Acts
    <3> HIDE DEF v, O
    <3>c. v \in Nat
      BY <1>3, <3>a
    <3>2. q[k] \in Acts /\ q[k].op = a.op /\ q[k].n = v
      BY <3>a, <3>b, <3>c
    <3>. QED  BY <3>2, <3>a DEF a
  <2>5. CASE a.op # "jump"
    BY <2>1, <2>3, <2>5 DEF a
  <2>. QED  BY <2>4, <2>5
<1>7. q \in [1..m -> Acts]
  BY <1>4, <1>6
<1>8. q \in Seq(Acts) /\ Len(q) = m
  <2>1. q \in Seq(Acts)
    BY <1>3, <1>7, SeqDef
  <2>2. DOMAIN q = 1..m /\ DOMAIN q = 1..Len(q) /\ Len(q) \in Nat
    BY <1>7, <2>1, LenProperties
  <2>. QED  BY <1>3, <2>1, <2>2
<1>. QED  BY <1>3, <1>6, <1>8 DEF q, m

(* An action does to the branch what it does to the whole program.         *)
LEMMA StaysAlongside ==
  ASSUME NEW p \in Seq(Acts), NEW q \in Seq(Acts), NEW i \in 1..Len(p), NEW m \in Nat, NEW h \in Nat, h > 0,
         Len(q) = m, i + m \in 1..Len(p), p[i].op = "parallel",
         NEW j \in 1..m, NEW x, x = i + j, q[j].op = p[x].op,
         \A k \in 1..m : q[k].op = p[i + k].op,
         q[j].op = "jump" => q[j].n \in 1..m,
         NEW c \in Compiling(p), NEW c2 \in Compiling(p), Structure(p, x - 1, c), Deep(p, x - 1, c),
         Accepts(p, c, x, c2), x \notin EndsAt(p, i),
         NEW d \in Compiling(q), ~d.error, Alongside(i, m, h, c, d),
         p[x].op \in {"break", "continue"} => \E s \in Inside(p, x) : s > i /\ p[s].op \in Loops
  PROVE  ~CompileAction(q, d, j).error /\ Alongside(i, m, h, c2, CompileAction(q, d, j))
<1> DEFINE d2 == CompileAction(q, d, j)
           a == c.stack
           b == d.stack
<1>1. /\ Len(p) \in Nat /\ i \in Nat /\ j \in Nat /\ x \in 1..Len(p) /\ x \in Nat
      /\ DOMAIN q = 1..m /\ MaxNesting \in Nat
  BY LenProperties, ProgramsAssumption
<1>2. a \in Seq(1..Len(p)) /\ b \in Seq(1..m) /\ Len(a) \in Nat /\ Len(b) \in Nat
      /\ c.otherwise \in [1..Len(p) -> 0..Len(p)] /\ d.otherwise \in [1..m -> 0..m]
  <2>1. a \in Seq(1..Len(p)) /\ b \in Seq(1..m)
    BY DEF Compiling
  <2>. QED  BY <2>1, LenProperties DEF Compiling, Lines
<1>3. /\ Len(a) = h + Len(b) /\ a[h] = i
      /\ \A k \in 1..Len(b) : a[h + k] = b[k] + i
      /\ \A s \in 1..m : d.otherwise[s] # 0 <=> c.otherwise[s + i] # 0
  BY DEF Alongside
<1>4. a # <<>> /\ Top(c) = a[Len(a)]
  <2> HIDE DEF a, b
  <2>1. Len(a) # 0
    BY <1>2, <1>3
  <2>2. a # <<>>
    BY <2>1, EmptySeq
  <2>. QED  BY <2>2 DEF Top, a
<1>5. b = <<>> => Top(c) = i
  <2>1. b = <<>> => Len(b) = 0
    BY EmptySeq
  <2>. QED  BY <1>2, <1>3, <1>4, <2>1
<1>6. b # <<>> => Top(d) \in 1..m /\ Top(c) = Top(d) + i /\ q[Top(d)].op = p[Top(c)].op /\ Len(b) \in 1..Len(b)
  <2>1. ASSUME b # <<>>
        PROVE  Top(d) \in 1..m /\ Top(c) = Top(d) + i /\ q[Top(d)].op = p[Top(c)].op /\ Len(b) \in 1..Len(b)
    <3>1. Len(b) \in 1..Len(b)
      BY <1>2, <2>1, EmptySeq
    <3>2. Top(d) = b[Len(b)] /\ b[Len(b)] \in 1..m
      BY <1>2, <3>1, ElementOfSeq DEF Top
    <3>3. Top(c) = b[Len(b)] + i
      BY <1>3, <1>4, <3>1
    <3>4. i + Top(d) = Top(d) + i
      BY <1>1, <3>2
    <3>. QED  BY <3>1, <3>2, <3>3, <3>4
  <2>. QED  BY <2>1
<1>7. p[x].op \in Branches \cup Closers => b # <<>>
  <2>1. ASSUME p[x].op \in Branches, b = <<>> PROVE FALSE
    <3>1. Divides(p, c, x, c2)
      BY <2>1, Kinds DEF Accepts, SkipsOver, Opens, Ends, Leaves
    <3>2. p[i].op = BelongsTo(p[x].op)
      BY <1>5, <2>1, <3>1 DEF Divides
    <3>. QED  BY <2>1, <3>2 DEF BelongsTo, Branches
  <2>2. ASSUME p[x].op \in Closers, b = <<>> PROVE FALSE
    <3>1. EndsAt(p, Top(c)) = {x}
      BY <1>1, <1>4, <2>2, FallsHere
    <3>. QED  BY <1>5, <2>2, <3>1
  <2>. QED  BY <2>1, <2>2
<1>8. ~Rejects(q, d, j)
  <2>1. ~(q[j].op = "jump" /\ q[j].n \notin DOMAIN q)
    BY <1>1
  <2>2. ~(q[j].op \in Openers /\ Len(d.stack) + 1 > MaxNesting)
    <3>1. SUFFICES ASSUME p[x].op \in Openers PROVE ~(Len(b) + 1 > MaxNesting)
      OBVIOUS
    <3>2. Opens(p, c, x, c2)
      BY <3>1, Kinds DEF Accepts, SkipsOver, Divides, Ends, Leaves
    <3>3. Len(a) + 1 <= MaxNesting
      BY <3>2 DEF Opens
    <3> HIDE DEF a, b
    <3>. QED  BY <1>1, <1>2, <1>3, <3>3
  <2>3. ~(/\ q[j].op \in Branches
          /\ \/ d.stack = <<>> \/ q[Top(d)].op # BelongsTo(q[j].op)
             \/ q[j].op = "else" /\ d.otherwise[Top(d)] # 0)
    <3>1. SUFFICES ASSUME p[x].op \in Branches
                   PROVE  b # <<>> /\ q[Top(d)].op = BelongsTo(p[x].op)
                          /\ (p[x].op = "else" => d.otherwise[Top(d)] = 0)
      OBVIOUS
    <3>2. Divides(p, c, x, c2)
      BY <3>1, Kinds DEF Accepts, SkipsOver, Opens, Ends, Leaves
    <3>3. p[Top(c)].op = BelongsTo(p[x].op) /\ (p[x].op = "else" => c.otherwise[Top(c)] = 0)
      BY <3>2 DEF Divides
    <3>. QED  BY <1>3, <1>6, <1>7, <3>1, <3>3
  <2>4. ~(q[j].op \in Closers /\ (d.stack = <<>> \/ ~Matches(q[Top(d)].op, q[j].op)))
    <3>1. SUFFICES ASSUME p[x].op \in Closers PROVE b # <<>> /\ Matches(q[Top(d)].op, p[x].op)
      OBVIOUS
    <3>2. Ends(p, c, x, c2)
      BY <3>1, Kinds DEF Accepts, SkipsOver, Opens, Divides, Leaves
    <3>3. Matches(p[Top(c)].op, p[x].op)
      BY <3>2 DEF Ends
    <3>. QED  BY <1>6, <1>7, <3>1, <3>3
  <2>5. ~(q[j].op \in {"break", "continue"} /\ \A k \in 1..Len(d.stack) : ~IsLoop(q, d, k))
    <3>1. SUFFICES ASSUME p[x].op \in {"break", "continue"} PROVE \E k \in 1..Len(b) : IsLoop(q, d, k)
      OBVIOUS
    <3>2. PICK s \in Inside(p, x) : s > i /\ p[s].op \in Loops
      BY <3>1
    <3>3. s \in Stack(c)
      BY <1>1, <3>1, Kinds, InsideIs
    <3>4. PICK k \in 1..Len(a) : s = a[k]
      BY <3>3 DEF Stack
    <3>5. k > h
      <4>1. SUFFICES ASSUME k <= h PROVE FALSE
        BY <1>2
      <4>2. CASE k = h
        BY <1>1, <1>3, <3>2, <3>4, <4>2
      <4>3. CASE k # h
        <5>1. k < h /\ h \in 1..Len(a) /\ k \in 1..Len(a)
          BY <1>2, <1>3, <4>1, <4>3
        <5>2. a[k] < a[h]
          BY <5>1 DEF Structure, Stacked
        <5>3. a[k] \in 1..Len(p)
          BY <1>2, ElementOfSeq
        <5>4. a[k] < i /\ a[k] > i
          BY <1>3, <3>2, <3>4, <5>2
        <5> DEFINE y == a[k]
        <5>5. y < i /\ y > i /\ y \in 1..Len(p)
          BY <5>3, <5>4
        <5> HIDE DEF y
        <5>. QED  BY <1>1, <5>5
      <4>. QED  BY <4>2, <4>3
    <3> DEFINE l == k - h
    <3>6. l \in 1..Len(b) /\ h + l = k
      BY <1>2, <1>3, <3>5
    <3> HIDE DEF l
    <3>7. s = b[l] + i /\ b[l] \in 1..m
      BY <1>2, <1>3, <3>4, <3>6, ElementOfSeq
    <3>8. q[b[l]].op = p[i + b[l]].op /\ i + b[l] = b[l] + i
      <4> DEFINE y == b[l]
      <4>1. y \in 1..m
        BY <3>7
      <4> HIDE DEF y
      <4>2. q[y].op = p[i + y].op /\ i + y = y + i
        BY <1>1, <4>1
      <4>. QED  BY <4>2 DEF y
    <3>9. IsLoop(q, d, l)
      BY <3>2, <3>7, <3>8 DEF IsLoop
    <3>. QED  BY <3>6, <3>9
  <2>. QED  BY <2>1, <2>2, <2>3, <2>4, <2>5 DEF Rejects
<1>9. d2 \in Compiling(q) /\ ~d2.error /\ Accepts(q, d, j, d2)
  BY <1>1, <1>8, NotRejected
<1> HIDE DEF d2
<1>10. Alongside(i, m, h, c2, d2)
  <2>1. CASE p[x].op \in {"jump", "plain"}
    <3>1. SkipsOver(p, c, x, c2) /\ SkipsOver(q, d, j, d2)
      BY <1>9, <2>1, Kinds DEF Accepts, Opens, Divides, Ends, Leaves
    <3>. QED  BY <3>1 DEF SkipsOver, Alongside
  <2>2. CASE p[x].op \in {"break", "continue"}
    <3>1. Leaves(p, c, x, c2) /\ Leaves(q, d, j, d2)
      BY <1>9, <2>2, Kinds DEF Accepts, Opens, Divides, Ends, SkipsOver
    <3>. QED  BY <3>1 DEF Leaves, Alongside
  <2>3. CASE p[x].op \in Openers
    <3>1. Opens(p, c, x, c2) /\ Opens(q, d, j, d2)
      BY <1>9, <2>3, Kinds DEF Accepts, Leaves, Divides, Ends, SkipsOver
    <3>2. /\ c2.stack = Append(a, x) /\ d2.stack = Append(b, j)
          /\ c2.otherwise = c.otherwise /\ d2.otherwise = d.otherwise
      BY <3>1 DEF Opens
    <3>3. /\ Len(c2.stack) = Len(a) + 1 /\ c2.stack[Len(a) + 1] = x
          /\ \A k \in 1..Len(a) : c2.stack[k] = a[k]
      <4>1. a \in Seq(1..Len(p)) /\ x \in 1..Len(p)
        BY <1>1, <1>2
      <4> HIDE DEF a, b
      <4>. QED  BY <3>2, <4>1, PushIs
    <3>4. /\ Len(d2.stack) = Len(b) + 1 /\ d2.stack[Len(b) + 1] = j
          /\ \A k \in 1..Len(b) : d2.stack[k] = b[k]
      <4>1. b \in Seq(1..m) /\ j \in 1..m
        BY <1>2
      <4> HIDE DEF a, b
      <4>. QED  BY <3>2, <4>1, PushIs
    <3> HIDE DEF a, b
    <3>l. Len(a) \in Nat /\ Len(b) \in Nat /\ Len(a) = h + Len(b)
      BY <1>2, <1>3
    <3>5. Len(c2.stack) = h + Len(d2.stack) /\ c2.stack[h] = i
      <4>1. Len(c2.stack) = h + Len(d2.stack)
        BY <3>l, <3>3, <3>4
      <4>2. h \in 1..Len(a)
        BY <3>l
      <4>. QED  BY <1>3, <3>3, <4>1, <4>2
    <3>6. ASSUME NEW k \in 1..Len(d2.stack) PROVE c2.stack[h + k] = d2.stack[k] + i
      <4>1. CASE k \in 1..Len(b)
        <5>1. h + k \in 1..Len(a)
          BY <3>l, <4>1
        <5>. QED  BY <1>3, <3>3, <3>4, <4>1, <5>1
      <4>2. CASE k = Len(b) + 1
        <5>1. h + k = Len(a) + 1
          BY <3>l, <4>2
        <5>. QED  BY <1>1, <3>3, <3>4, <4>2, <5>1, SMTT(30)
      <4>3. k \in 1..Len(b) \/ k = Len(b) + 1
        BY <3>l, <3>4
      <4>. QED  BY <4>1, <4>2, <4>3
    <3>. QED  BY <1>3, <3>2, <3>5, <3>6 DEF Alongside
  <2>4. CASE p[x].op \in Closers
    <3>1. Ends(p, c, x, c2) /\ Ends(q, d, j, d2)
      BY <1>9, <2>4, Kinds DEF Accepts, Leaves, Divides, Opens, SkipsOver
    <3>2. b # <<>>
      BY <1>7, <2>4
    <3>3. /\ c2.stack = SubSeq(a, 1, Len(a) - 1) /\ d2.stack = SubSeq(b, 1, Len(b) - 1)
          /\ c2.otherwise = c.otherwise /\ d2.otherwise = d.otherwise
      BY <3>1 DEF Ends
    <3>4. Len(c2.stack) = Len(a) - 1 /\ \A k \in 1..Len(c2.stack) : c2.stack[k] = a[k]
      <4>1. a \in Seq(1..Len(p)) /\ a # <<>>
        BY <1>2, <1>4
      <4> HIDE DEF a, b
      <4>. QED  BY <3>3, <4>1, PopIs
    <3>5. Len(d2.stack) = Len(b) - 1 /\ \A k \in 1..Len(d2.stack) : d2.stack[k] = b[k]
      <4>1. b \in Seq(1..m)
        BY <1>2
      <4> HIDE DEF a, b
      <4>. QED  BY <3>2, <3>3, <4>1, PopIs
    <3>6. Len(b) >= 1
      BY <1>2, <1>6, <3>2
    <3> HIDE DEF a, b
    <3>l. Len(a) \in Nat /\ Len(b) \in Nat /\ Len(a) = h + Len(b)
      BY <1>2, <1>3
    <3>7. Len(c2.stack) = h + Len(d2.stack)
      BY <3>l, <3>4, <3>5
    <3>8. c2.stack[h] = i
      <4>1. h \in 1..Len(c2.stack)
        BY <3>l, <3>4, <3>6
      <4>. QED  BY <1>3, <3>4, <4>1
    <3>9. ASSUME NEW k \in 1..Len(d2.stack) PROVE c2.stack[h + k] = d2.stack[k] + i
      <4>1. k \in 1..Len(b) /\ h + k \in 1..Len(c2.stack)
        <5> DEFINE n == Len(d2.stack)
                   u == Len(c2.stack)
        <5>1. /\ k \in 1..n /\ n = Len(b) - 1 /\ u = h + n /\ Len(b) \in Nat
          BY <3>l, <3>5, <3>7
        <5> HIDE DEF n, u
        <5>. QED  BY <5>1 DEF u
      <4>. QED  BY <1>3, <3>4, <3>5, <4>1
    <3>. QED  BY <1>3, <3>3, <3>7, <3>8, <3>9 DEF Alongside
  <2>5. CASE p[x].op \in Branches
    <3>1. Divides(p, c, x, c2) /\ Divides(q, d, j, d2)
      BY <1>9, <2>5, Kinds DEF Accepts, Leaves, Ends, Opens, SkipsOver
    <3>2. Top(d) \in 1..m /\ Top(c) = Top(d) + i /\ Top(c) \in 1..Len(p)
      BY <1>4, <1>6, <1>7, <2>5, TopIs
    <3>3. /\ c2.stack = a /\ d2.stack = b
          /\ c2.otherwise = IF p[x].op = "else" THEN [c.otherwise EXCEPT ![Top(c)] = x] ELSE c.otherwise
          /\ d2.otherwise = IF p[x].op = "else" THEN [d.otherwise EXCEPT ![Top(d)] = j] ELSE d.otherwise
      BY <3>1 DEF Divides
    <3> HIDE DEF a, b
    <3>4. ASSUME NEW s \in 1..m PROVE d2.otherwise[s] # 0 <=> c2.otherwise[s + i] # 0
      <4>1. s + i \in 1..Len(p)
        BY <1>1
      <4>2. CASE p[x].op = "else" /\ s = Top(d)
        <5>1. d2.otherwise[s] = j /\ c2.otherwise[s + i] = x
          BY <1>2, <3>2, <3>3, <4>1, <4>2
        <5>. QED  BY <1>1, <5>1
      <4>3. CASE p[x].op = "else" /\ s # Top(d)
        <5>1. s + i # Top(c)
          BY <1>1, <3>2, <4>3
        <5>2. d2.otherwise[s] = d.otherwise[s] /\ c2.otherwise[s + i] = c.otherwise[s + i]
          BY <1>2, <3>2, <3>3, <4>1, <4>3, <5>1
        <5>. QED  BY <1>3, <5>2
      <4>4. CASE p[x].op # "else"
        BY <1>3, <3>3, <4>4
      <4>. QED  BY <4>2, <4>3, <4>4
    <3>. QED  BY <1>3, <3>3, <3>4 DEF Alongside, a, b
  <2>. QED  BY <1>1, <2>1, <2>2, <2>3, <2>4, <2>5, OpsAre
<1>. QED  BY <1>9, <1>10 DEF d2

(* A branch that keeps to itself is accepted as a program of its own.      *)
LEMMA BranchCompiles ==
  ASSUME NEW p \in Seq(Acts), ~compileFlow(p).error,
         NEW i \in 1..Len(p), p[i].op = "parallel", SelfContained(p, compileFlow(p), i)
  PROVE  ~compileFlow(Branch(p, i)).error
<1> DEFINE f == compileFlow(p)
           q == Branch(p, i)
           m == f.end[i] - i - 1
<1>1. /\ Len(p) \in Nat /\ i \in Nat /\ i > 0 /\ Len(p) \in 0..Len(p)
      /\ DOMAIN p = 1..Len(p)
  BY LenProperties
<1>2. /\ m \in Nat /\ i + m + 1 = f.end[i] /\ i + m + 1 \in 1..Len(p)
      /\ q \in Seq(Acts) /\ Len(q) = m
      /\ \A k \in 1..m : q[k].op = p[i + k].op
      /\ \A k \in 1..m : q[k].op = "jump" => q[k].n \in 1..m
  BY BranchIs
<1>3. PICK r : Runs(p, Len(p), r) /\ f = Finished(r[Len(p)])
  BY CompileRuns
<1>4. PICK R : Runs(q, Len(q), R) /\ compileFlow(q) = Finished(R[Len(q)])
  BY <1>2, CompileRuns
<1>5. WellPaired(p, f) /\ \A s \in 1..Len(p) : p[s].op \in Openers => EndsAt(p, s) = {f.end[s]}
  BY <1>1, PairsWell, AcceptedIsLegal
<1>6. SelfContained(p, f, i) /\ ~f.error
  OBVIOUS
<1> HIDE DEF f, q, m
<1>7. \A n \in 0..Len(p) : ~r[n].error
  <2>1. ~r[Len(p)].error
    <3>1. Clean(p, Len(p), r[Len(p)])
      BY <1>1, <1>3, RunsClean
    <3> DEFINE c == r[Len(p)]
    <3>2. c \in Compiling(p) /\ f = Finished(c)
      BY <1>3, <3>1 DEF Clean
    <3> HIDE DEF c
    <3>3. ~c.error
      BY <1>6, <3>2 DEF Finished, Compiling
    <3>. QED  BY <3>3 DEF c
  <2>. QED  BY <1>3, <2>1, NoneRejected
<1>8. \A j \in 0..m : R[j] \in Compiling(q)
  BY <1>2, <1>4, RunsClean DEF Clean
<1>9. R[0] = Nothing(q) /\ \A j \in 1..m : R[j] = CompileAction(q, R[j - 1], j)
  BY <1>2, <1>4, RunStep
<1> DEFINE h == Len(r[i].stack)
<1>10. h \in Nat /\ h > 0 /\ r[i].stack[h] = i
  <2>1. /\ r[i - 1] \in Compiling(p) /\ Accepts(p, r[i - 1], i, r[i])
    BY <1>1, <1>3, <1>7, RunAccepts
  <2>2. Opens(p, r[i - 1], i, r[i])
    BY <2>1, Kinds DEF Accepts, SkipsOver, Divides, Ends, Leaves, Openers
  <2> DEFINE s == r[i - 1].stack
             t == r[i].stack
  <2>3. s \in Seq(1..Len(p)) /\ t = Append(s, i)
    BY <2>1, <2>2 DEF Compiling, Opens
  <2> HIDE DEF s, t
  <2>4. Len(t) = Len(s) + 1 /\ t[Len(t)] = i
    BY <2>3, PushIs
  <2>5. Len(s) \in Nat
    BY <2>3, LenProperties
  <2>6. Len(t) \in Nat /\ Len(t) > 0
    BY <2>4, <2>5
  <2>. QED  BY <2>4, <2>6 DEF t
<1> HIDE DEF h
<1> DEFINE P == {j \in 0..m : ~R[j].error /\ Alongside(i, m, h, r[i + j], R[j])}
<1>11. 0 \in P
  <2>1. R[0].stack = <<>> /\ ~R[0].error /\ R[0].otherwise = [s \in 1..m |-> 0]
    BY <1>2, <1>9, LenProperties DEF Nothing
  <2>2. Len(R[0].stack) = 0
    BY <2>1, EmptySeq
  <2>3. Unset(p, i, r[i])
    BY <1>1, <1>3, <1>7, RunAccepts DEF Structure
  <2>4. ASSUME NEW s \in 1..m PROVE r[i].otherwise[s + i] = 0
    <3>1. s + i \in 1..Len(p) /\ s + i > i
      BY <1>1, <1>2
    <3>. QED  BY <2>3, <3>1 DEF Unset
  <2>5. Len(r[i].stack) = h + Len(R[0].stack)
    BY <1>10, <2>2 DEF h
  <2>6. Alongside(i, m, h, r[i], R[0])
    BY <1>10, <2>1, <2>2, <2>4, <2>5 DEF Alongside
  <2>7. i + 0 = i /\ 0 \in 0..m
    BY <1>1, <1>2
  <2>. QED  BY <2>1, <2>6, <2>7
<1>12. ASSUME NEW j \in 1..m, j - 1 \in P PROVE j \in P
  <2> DEFINE x == i + j
             d == R[j - 1]
             c == r[x - 1]
             c2 == r[x]
  <2>1. /\ x \in 1..Len(p) /\ x - 1 = i + (j - 1) /\ x \in 0..Len(p) /\ x - 1 \in 0..Len(p)
        /\ x < f.end[i] /\ x > i /\ x \in (i + 1)..(f.end[i] - 1) /\ j \in 0..m /\ j - 1 \in 0..m
        /\ i + m \in 1..Len(p) /\ x \in Nat
    BY <1>1, <1>2
  <2>2. ~d.error /\ Alongside(i, m, h, c, d) /\ d \in Compiling(q)
    BY <1>8, <1>12, <2>1
  <2>3. q[j].op = p[x].op /\ (q[j].op = "jump" => q[j].n \in 1..m)
    BY <1>2
  <2> HIDE DEF x
  <2>4. /\ c \in Compiling(p) /\ c2 \in Compiling(p) /\ Structure(p, x - 1, c) /\ Accepts(p, c, x, c2)
    BY <1>3, <1>7, <2>1, RunAccepts
  <2>5. Deep(p, x - 1, c)
    BY <1>3, <1>7, <2>1, RunsDeep
  <2>6. x \notin EndsAt(p, i)
    BY <1>1, <1>5, <2>1 DEF Openers
  <2>7. p[x].op \in {"break", "continue"} => \E s \in Inside(p, x) : s > i /\ p[s].op \in Loops
    <3>1. ASSUME p[x].op \in {"break", "continue"}
          PROVE  \E s \in Inside(p, x) : s > i /\ p[s].op \in Loops
      <4> DEFINE s == f.begin[x]
      <4>1. s > i
        BY <1>6, <2>1, <3>1 DEF SelfContained
      <4>2. /\ s \in 1..Len(p) /\ s < x /\ x < f.end[s] /\ p[s].op \in Loops /\ p[s].op \in Openers
        BY <1>5, <2>1, <3>1, LoopApart
      <4>3. EndsAt(p, s) = {f.end[s]}
        BY <1>5, <4>2
      <4> HIDE DEF s
      <4>4. s \in Inside(p, x)
        BY <1>1, <4>2, <4>3 DEF Inside
      <4>. QED  BY <4>1, <4>2, <4>4
    <3>. QED  BY <3>1
  <2> HIDE DEF c, c2, d
  <2>8. ~CompileAction(q, d, j).error /\ Alongside(i, m, h, c2, CompileAction(q, d, j))
    <3>1. x = i + j
      BY DEF x
    <3>. QED  BY <1>2, <1>10, <2>1, <2>2, <2>3, <2>4, <2>5, <2>6, <2>7, <3>1, StaysAlongside
  <2>9. R[j] = CompileAction(q, d, j)
    BY <1>9 DEF d
  <2>. QED  BY <2>1, <2>8, <2>9 DEF c2, x
<1> HIDE DEF P
<1>13. 0..m \subseteq P
  BY <1>2, <1>11, <1>12, Induction
<1>14. ~R[m].error /\ Alongside(i, m, h, r[i + m], R[m])
  <2>1. m \in 0..m
    BY <1>2
  <2>. QED  BY <1>13, <2>1 DEF P
<1>15. R[m].stack = <<>>
  <2> DEFINE e == f.end[i]
             c == r[e - 1]
             a == c.stack
             b == R[m].stack
  <2>1. /\ e \in 1..Len(p) /\ e - 1 = i + m /\ e \in 0..Len(p) /\ e - 1 \in 0..Len(p)
    BY <1>1, <1>2
  <2>2. p[e].op \in Closers /\ f.begin[e] = i
    BY <1>5 DEF WellPaired, Openers
  <2>3. Len(a) = h + Len(b) /\ a[h] = i
    BY <1>14, <2>1 DEF Alongside
  <2> HIDE DEF e
  <2>4. /\ c \in Compiling(p) /\ Structure(p, e - 1, c) /\ Accepts(p, c, e, r[e])
        /\ Deep(p, e - 1, c)
    BY <1>3, <1>7, <2>1, RunAccepts, RunsDeep
  <2>5. b \in Seq(1..m)
    <3>1. m \in 0..m
      BY <1>2
    <3>. QED  BY <1>2, <1>8, <3>1 DEF Compiling
  <2> HIDE DEF c
  <2>6. a # <<>>
    BY <2>2, <2>4, Kinds DEF Accepts, SkipsOver, Opens, Divides, Ends, Leaves
  <2>7. a[Len(a)] \in 1..Len(p) /\ Len(a) \in 1..Len(a) /\ p[a[Len(a)]].op \in Openers
    <3>1. Top(c) \in 1..Len(p) /\ Len(a) \in 1..Len(a)
      BY <2>4, <2>6, TopIs
    <3>. QED  BY <2>4, <3>1 DEF Top, Structure, Stacked
  <2>8. a[Len(a)] = i
    <3>1. EndsAt(p, Top(c)) = {e}
      BY <2>1, <2>2, <2>4, <2>6, FallsHere
    <3>2. EndsAt(p, a[Len(a)]) = {e}
      BY <3>1 DEF Top
    <3> DEFINE t == a[Len(a)]
    <3>3. t \in 1..Len(p) /\ p[t].op \in Openers /\ EndsAt(p, t) = {e}
      BY <2>7, <3>2
    <3> HIDE DEF t
    <3>4. EndsAt(p, t) = {f.end[t]}
      BY <1>5, <3>3
    <3>5. f.end[t] = e
      BY <3>3, <3>4
    <3>6. f.begin[f.end[t]] = t
      BY <1>5, <3>3 DEF WellPaired
    <3>. QED  BY <2>2, <3>5, <3>6 DEF t
  <2>9. Len(b) = 0
    <3>1. Len(b) \in Nat
      BY <2>5, LenProperties
    <3>2. SUFFICES ASSUME Len(b) > 0 PROVE FALSE
      BY <3>1
    <3>3. h \in 1..Len(a) /\ h < Len(a)
      <4> HIDE DEF a, b
      <4>. QED  BY <1>10, <2>3, <3>1, <3>2
    <3>4. a[h] < a[Len(a)]
      BY <2>4, <2>7, <3>3 DEF Structure, Stacked
    <3>5. i < i
      BY <2>3, <2>8, <3>4
    <3>. QED  BY <1>1, <3>5
  <2>. QED  BY <2>5, <2>9, EmptySeq
<1>16. ~compileFlow(q).error
  <2> DEFINE d == R[m]
  <2>1. compileFlow(q) = Finished(d) /\ d \in Compiling(q) /\ ~d.error /\ d.stack = <<>>
    <3>1. m \in 0..m
      BY <1>2
    <3>. QED  BY <1>2, <1>4, <1>8, <1>14, <1>15, <3>1
  <2> HIDE DEF d
  <2>. QED  BY <2>1 DEF Finished, Compiling
<1>. QED  BY <1>16 DEF q

LEMMA BranchesFit ==
  FlowInv => BranchesCompile
<1>1. SUFFICES ASSUME FlowInv, ~flow.error, NEW i \in 1..Len(program), program[i].op = "parallel",
                      SelfContained(program, flow, i)
               PROVE  ~compileFlow(Branch(program, i)).error
  <2>1. FlowInv => DOMAIN program = 1..Len(program)
    BY ProgramsAssumption, LenProperties DEF FlowInv, Values
  <2>. QED  BY <2>1 DEF BranchesCompile, SelfContained
<1>2. program \in Seq(Acts) /\ flow = compileFlow(program)
  BY <1>1, ProgramsAssumption DEF FlowInv, Values
<1>. QED  BY <1>1, <1>2, BranchCompiles

(* The compiler accepts a program exactly if its blocks are well nested,   *)
(* within the limit, and its breaks, branches and jumps have their place;  *)
(* the pairs it makes are the blocks; and what is cut out of a parallel    *)
(* block of an accepted program is accepted again.                         *)
THEOREM CompileInvHolds == FlowSpec => []CompileInv
<1>1. FlowInit => FlowInv
  BY AtTheStart
<1>2. FlowInv /\ [FlowNext]_flowVars => FlowInv'
  BY KeepsFlowInv
<1>3. FlowInv => CompileInv
  BY CompileFits, BranchesFit DEF CompileInv
<1>. QED  BY <1>1, <1>2, <1>3, PTL DEF FlowSpec
=============================================================================
