------------------------ MODULE MacroExecutorProofs ------------------------
(***************************************************************************)
(* Keys, output and flows of MacroExecutor for any rules, keys and         *)
(* scripts, any number of flows, any depth of calls and any failures of    *)
(* the device.                                                             *)
(***************************************************************************)
EXTENDS MacroExecutor, FiniteSetTheorems, WellFoundedInduction, TLAPS

(* What a flow is: it holds keys only while it is present and owns the     *)
(* output, a click holds its keys, and paused by a rule it holds none.     *)
FlowSound(j, acq) ==
    /\ j \in FlowRecord
    /\ j.pulse \subseteq j.held
    /\ j.held # {} => j.owns
    /\ j.owns => acq /\ j.st \in {"live", "ended"}
    /\ j.st = "live" /\ j.paused /\ (j.manual \/ j.branch \/ RuleOf[j.rule].mode # "sequence")
          => j.held = {}

Sound(js, acq) == /\ js \in [Flows -> FlowRecord]
                  /\ \A f \in Flows : FlowSound(js[f], acq)

Holders(js, k) == {f \in Flows : k \in js[f].held}
Counted(js, count) == \A k \in Keys : count[k] = Cardinality(Holders(js, k))

(* Holder counts, ledger and device.  A key nobody holds is in the ledger  *)
(* only because its release failed.                                        *)
KeysAgree ==
    \A k \in Keys : /\ owners[k] > 0 => k \in ledger
                    /\ k \in ledger /\ owners[k] = 0 => k \in doubtful
                    /\ k \notin doubtful => (k \in down <=> owners[k] > 0 \/ flash = k)

KeyTypes == /\ owners \in [Keys -> Nat] /\ flash \in Keys \cup {NoKey}
            /\ ledger \subseteq Keys /\ down \subseteq Keys
            /\ doubtful \subseteq Keys /\ dropped \subseteq Keys /\ flashLost \subseteq Keys

KeyState == KeyTypes /\ KeysAgree /\ NothingLeftDown /\ flash \notin ledger

HandOver    == acquired \in BOOLEAN /\ owned = acquired /\ (owned => flash = NoKey)
OutputState == HandOver /\ (phase = "idle" /\ acquired => OutputNeeded(job))

TickTypes == /\ disabled \subseteq Rules /\ pauses \in 0..MaxPauses
             /\ phase \in {"idle", "poll", "run"} /\ visit \in {"enter", "steps"}
             /\ todo \subseteq Flows /\ budget \in 0..Budget /\ doing \in Steps \cup {NoStep}

(* A step is performed by a flow in its turn, with the output if it needs  *)
(* it.                                                                     *)
StepState == /\ visit = "steps" => phase = "run" /\ todo # {} /\ ~job[Head].paused
             /\ doing # NoStep => visit = "steps" /\ (Exclusive(doing) => job[Head].owns)

IInv == /\ config \in Configurations /\ Sound(job, acquired) /\ Counted(job, owners)
        /\ KeyState /\ OutputState /\ TickTypes /\ StepState

(* What a step may not do to a key that is held before and after it.       *)
KeptDown == \A k \in Keys : owners[k] > 0 /\ owners'[k] > 0 /\ k \in down => k \in down'

-----------------------------------------------------------------------------
(* The least of some flows is one of them.                                 *)
LEMMA LeastIn ==
  ASSUME NEW S, S \subseteq Flows, S # {}
  PROVE  Least(S) \in S /\ \A g \in S : Least(S) <= g
<1>1. S \subseteq Nat
  BY BoundsAssumption DEF Flows
<1>2. PICK m \in S : \A g \in S : ~(<<g, m>> \in OpToRel(<, Nat))
  BY <1>1, WFMin, NatLessThanWellFounded
<1>3. \A g \in S : m <= g
  <2> TAKE g \in S
  <2>1. ~(<<g, m>> \in {ss \in Nat \X Nat : ss[1] < ss[2]})
    BY <1>2 DEF OpToRel
  <2>. QED  BY <1>1, <2>1
<1>. QED  BY <1>3 DEF Least

LEMMA FlowsAreFinite == IsFiniteSet(Flows)
BY FS_Interval, BoundsAssumption DEF Flows

-----------------------------------------------------------------------------
(* Single flows.                                                           *)
LEMMA FlowEnded ==
  ASSUME NEW j, NEW acq, FlowSound(j, acq), j.st = "live"
  PROVE  /\ FlowSound([j EXCEPT !.st = "ended"], acq)
         /\ [j EXCEPT !.st = "ended"].held = j.held
<1> DEFINE n == [j EXCEPT !.st = "ended"]
<1>1. /\ n \in FlowRecord /\ n.st = "ended" /\ n.pulse = j.pulse /\ n.held = j.held
      /\ n.owns = j.owns
  BY DEF FlowSound, FlowRecord
<1> HIDE DEF n
<1>2. FlowSound(n, acq)
  BY <1>1 DEF FlowSound
<1>. QED  BY <1>1, <1>2 DEF n

LetsGo(j, ks) == [j EXCEPT !.held = @ \ ks, !.pulse = @ \ ks]

LEMMA FlowLess ==
  ASSUME NEW j, NEW acq, FlowSound(j, acq), NEW ks
  PROVE  /\ FlowSound(LetsGo(j, ks), acq)
         /\ LetsGo(j, ks).held = j.held \ ks /\ LetsGo(j, ks).pulse = j.pulse \ ks
         /\ LetsGo(j, ks).st = j.st /\ LetsGo(j, ks).owns = j.owns
         /\ LetsGo(j, ks).paused = j.paused
<1> DEFINE n == [j EXCEPT !.held = @ \ ks, !.pulse = @ \ ks]
<1>1. /\ n \in FlowRecord /\ n.st = j.st /\ n.paused = j.paused /\ n.manual = j.manual
      /\ n.branch = j.branch /\ n.rule = j.rule /\ n.owns = j.owns
      /\ n.held = j.held \ ks /\ n.pulse = j.pulse \ ks
  BY DEF FlowSound, FlowRecord
<1> HIDE DEF n
<1>2. FlowSound(n, acq)
  BY <1>1 DEF FlowSound
<1>3. LetsGo(j, ks) = n
  BY DEF LetsGo, n
<1>. QED  BY <1>1, <1>2, <1>3

LEMMA UnbornIs ==
  /\ Unborn \in FlowRecord /\ Unborn.st = "unborn" /\ Unborn.pulse = {} /\ Unborn.held = {}
  /\ ~Unborn.owns /\ ~Unborn.paused /\ Unborn.waits = 0 /\ Unborn.parent = 0
  /\ Unborn.rule \in Rules
<1>1. PICK q \in Rules : TRUE
  BY RulesAssumption
<1>2. (CHOOSE r \in Rules : TRUE) \in Rules
  BY <1>1
<1>3. 0 \in 0..MaxFlows
  BY BoundsAssumption
<1>. QED  BY <1>2, <1>3 DEF Unborn, FlowRecord

LEMMA GoneIs ==
  ASSUME NEW acq
  PROVE  FlowSound(Gone, acq) /\ FlowSound(Unborn, acq) /\ Gone.held = {} /\ ~Gone.owns
         /\ Gone.st = "gone"
<1>1. /\ Gone \in FlowRecord /\ Gone.st = "gone" /\ Gone.pulse = {} /\ Gone.held = {}
      /\ ~Gone.owns
  BY UnbornIs DEF Gone, FlowRecord
<1>. QED  BY <1>1, UnbornIs DEF FlowSound

LEMMA BornIs ==
  ASSUME NEW acq, NEW r \in Rules, NEW parent \in 0..MaxFlows, NEW branch \in BOOLEAN,
         NEW manual \in BOOLEAN
  PROVE  LET n == Born(r, parent, branch, manual) IN
         /\ FlowSound(n, acq) /\ n.held = {} /\ n.st = "live" /\ ~n.owns /\ n.waits = 0
         /\ n.rule = r /\ n.parent = parent /\ n.branch = branch
<1> DEFINE n == Born(r, parent, branch, manual)
<1>1. /\ n \in FlowRecord /\ n.st = "live" /\ n.pulse = {} /\ n.held = {} /\ ~n.owns
      /\ ~n.paused /\ n.waits = 0 /\ n.rule = r /\ n.parent = parent /\ n.branch = branch
  BY UnbornIs DEF Born, FlowRecord
<1> HIDE DEF n
<1>2. FlowSound(n, acq)
  BY <1>1 DEF FlowSound
<1>. QED  BY <1>1, <1>2 DEF n

(* Tables of flows.                                                        *)
LEMMA SameHolders ==
  ASSUME NEW js, NEW ns, NEW count, Counted(js, count),
         \A f \in Flows : ns[f].held = js[f].held
  PROVE  Counted(ns, count)
<1>1. \A k \in Keys : Holders(ns, k) = Holders(js, k)
  BY DEF Holders
<1>. QED  BY <1>1 DEF Counted

LEMMA SoundWith ==
  ASSUME NEW js, NEW acq, Sound(js, acq), NEW h \in Flows, NEW j, FlowSound(j, acq)
  PROVE  Sound([js EXCEPT ![h] = j], acq)
BY DEF Sound, FlowSound

LEMMA EndsIs ==
  ASSUME NEW js, js \in [Flows -> FlowRecord], NEW U
  PROVE  \A f \in Flows : \/ Ends(js, U)[f] = js[f]
                          \/ /\ js[f].st = "live"
                             /\ Ends(js, U)[f] = [js[f] EXCEPT !.st = "ended"]
BY DEF Ends

LEMMA SoundEnds ==
  ASSUME NEW js, NEW acq, Sound(js, acq), NEW U
  PROVE  /\ Sound(Ends(js, U), acq)
         /\ \A f \in Flows : /\ Ends(js, U)[f].held = js[f].held
                             /\ Ends(js, U)[f].rule = js[f].rule
                             /\ Ends(js, U)[f].branch = js[f].branch
                             /\ Ends(js, U)[f].st = "live" => Ends(js, U)[f] = js[f]
                             /\ Ends(js, U)[f].st = "unborn" <=> js[f].st = "unborn"
<1>1. \A f \in Flows : /\ FlowSound(Ends(js, U)[f], acq)
                       /\ Ends(js, U)[f].held = js[f].held
                       /\ Ends(js, U)[f].rule = js[f].rule
                       /\ Ends(js, U)[f].branch = js[f].branch
                       /\ Ends(js, U)[f].st = "unborn" <=> js[f].st = "unborn"
                       /\ Ends(js, U)[f].st = "live" => Ends(js, U)[f] = js[f]
  <2> TAKE f \in Flows
  <2>1. FlowSound(js[f], acq) /\ js \in [Flows -> FlowRecord] /\ js[f] \in FlowRecord
    BY DEF Sound
  <2>2. /\ [js[f] EXCEPT !.st = "ended"].st = "ended"
        /\ [js[f] EXCEPT !.st = "ended"].rule = js[f].rule
        /\ [js[f] EXCEPT !.st = "ended"].branch = js[f].branch
    BY <2>1 DEF FlowRecord
  <2>3. CASE Ends(js, U)[f] = js[f]
    BY <2>1, <2>3
  <2>4. CASE js[f].st = "live" /\ Ends(js, U)[f] = [js[f] EXCEPT !.st = "ended"]
    <3>1. /\ FlowSound([js[f] EXCEPT !.st = "ended"], acq)
          /\ [js[f] EXCEPT !.st = "ended"].held = js[f].held
      BY <2>1, <2>4, FlowEnded
    <3>. QED  BY <2>2, <2>4, <3>1
  <2>. QED  BY <2>1, <2>3, <2>4, EndsIs
<1>2. \A f \in Flows : Ends(js, U)[f] \in FlowRecord
  BY <1>1 DEF FlowSound
<1>3. Ends(js, U) \in [Flows -> FlowRecord]
  BY <1>2 DEF Ends
<1>. QED  BY <1>1, <1>3 DEF Sound

LEMMA SoundWithout ==
  ASSUME NEW js, NEW acq, Sound(js, acq), NEW give
  PROVE  /\ Sound(Without(js, give), acq)
         /\ \A f \in Flows : /\ Without(js, give)[f].held = js[f].held \ give[f]
                             /\ Without(js, give)[f].pulse = js[f].pulse \ give[f]
                             /\ Without(js, give)[f].st = js[f].st
                             /\ Without(js, give)[f].owns = js[f].owns
                             /\ Without(js, give)[f].paused = js[f].paused
<1>1. \A f \in Flows : /\ FlowSound(Without(js, give)[f], acq)
                       /\ Without(js, give)[f].held = js[f].held \ give[f]
                       /\ Without(js, give)[f].pulse = js[f].pulse \ give[f]
                       /\ Without(js, give)[f].st = js[f].st
                       /\ Without(js, give)[f].owns = js[f].owns
                       /\ Without(js, give)[f].paused = js[f].paused
  <2> TAKE f \in Flows
  <2>1. FlowSound(js[f], acq)
    BY DEF Sound
  <2>2. Without(js, give)[f] = LetsGo(js[f], give[f])
    BY DEF Without, LetsGo
  <2>. QED  BY <2>1, <2>2, FlowLess
<1>2. \A f \in Flows : Without(js, give)[f] \in FlowRecord
  BY <1>1 DEF FlowSound
<1>3. Without(js, give) \in [Flows -> FlowRecord]
  BY <1>2 DEF Without
<1>. QED  BY <1>1, <1>3 DEF Sound

(* After cleanup() the executor has the output only if a running flow      *)
(* needs it, and ended flows hold nothing.                                 *)
LEMMA SoundCleaned ==
  ASSUME NEW js, NEW acq, Sound(js, acq)
  PROVE  /\ Sound(Cleaned(js), acq /\ OutputNeeded(js))
         /\ OutputNeeded(Cleaned(js)) <=> OutputNeeded(js)
         /\ \A f \in Flows :
              /\ Cleaned(js)[f].held = js[f].held \ HeldBy(js, Ended(js))[f]
              /\ js[f].st # "ended" => Cleaned(js)[f] = js[f]
              /\ Cleaned(js)[f].st # "ended"
              /\ Cleaned(js)[f].st = "unborn" <=> js[f].st = "unborn"
<1>1. \A f \in Flows : /\ FlowSound(Cleaned(js)[f], acq /\ OutputNeeded(js))
                       /\ Cleaned(js)[f].held = js[f].held \ HeldBy(js, Ended(js))[f]
                       /\ js[f].st # "ended" => Cleaned(js)[f] = js[f]
                       /\ Cleaned(js)[f].st # "ended"
                       /\ Cleaned(js)[f].st = "unborn" <=> js[f].st = "unborn"
  <2> TAKE f \in Flows
  <2>1. FlowSound(js[f], acq)
    BY DEF Sound
  <2>2. CASE js[f].st = "ended"
    <3>1. Cleaned(js)[f] = Gone
      BY <2>2 DEF Cleaned
    <3>2. HeldBy(js, Ended(js))[f] = js[f].held
      BY <2>2 DEF HeldBy, Ended
    <3>. QED  BY <2>2, <3>1, <3>2, GoneIs
  <2>3. CASE js[f].st # "ended"
    <3>1. Cleaned(js)[f] = js[f]
      BY <2>3 DEF Cleaned
    <3>2. HeldBy(js, Ended(js))[f] = {}
      BY <2>3 DEF HeldBy, Ended
    <3>3. js[f].owns => OutputNeeded(js)
      BY <2>1, <2>3 DEF FlowSound, OutputNeeded, Live
    <3>4. FlowSound(js[f], acq /\ OutputNeeded(js))
      BY <2>1, <3>3 DEF FlowSound
    <3>. QED  BY <2>3, <3>1, <3>2, <3>4
  <2>. QED  BY <2>2, <2>3
<1>2. \A f \in Flows : Cleaned(js)[f] \in FlowRecord
  BY <1>1 DEF FlowSound
<1>3. Cleaned(js) \in [Flows -> FlowRecord]
  BY <1>2 DEF Cleaned
<1>4. Live(Cleaned(js)) = Live(js) /\ \A f \in Live(js) : Cleaned(js)[f] = js[f]
  <2>1. ASSUME NEW f \in Flows PROVE Cleaned(js)[f].st = "live" <=> js[f].st = "live"
    <3>1. CASE js[f].st = "ended"
      BY <3>1, GoneIs DEF Cleaned
    <3>. QED  BY <3>1, <1>1
  <2>2. \A f \in Live(js) : f \in Flows /\ js[f].st # "ended"
    BY DEF Live
  <2>. QED  BY <2>1, <2>2, <1>1 DEF Live
<1>5. OutputNeeded(Cleaned(js)) <=> OutputNeeded(js)
  BY <1>4 DEF OutputNeeded
<1>. QED  BY <1>1, <1>3, <1>5 DEF Sound

(* A new flow takes the place of the first unborn one.                     *)
LEMMA SoundStarted ==
  ASSUME NEW js, NEW acq, Sound(js, acq), \E g \in Flows : js[g].st = "unborn",
         NEW n, FlowSound(n, acq), n.held = {}, NEW f, f = Least({g \in Flows : js[g].st = "unborn"})
  PROVE  /\ Sound(Started(js, n), acq)
         /\ f \in Flows /\ js[f].st = "unborn" /\ Started(js, n) = [js EXCEPT ![f] = n]
         /\ \A g \in Flows : /\ Started(js, n)[g].held = js[g].held
                             /\ g # f => Started(js, n)[g] = js[g]
<1>1. f \in Flows /\ js[f].st = "unborn"
  <2> DEFINE S == {g \in Flows : js[g].st = "unborn"}
  <2>1. S # {} /\ S \subseteq Flows
    OBVIOUS
  <2>2. Least(S) \in S
    BY <2>1, LeastIn
  <2>. QED  BY <2>2
<1>2. Started(js, n) = [js EXCEPT ![f] = n]
  BY DEF Started
<1>3. js[f].held = {}
  <2>1. FlowSound(js[f], acq)
    BY <1>1 DEF Sound
  <2>. QED  BY <1>1, <2>1 DEF FlowSound
<1>4. Sound(Started(js, n), acq)
  <2>1. Sound([js EXCEPT ![f] = n], acq)
    BY <1>1, SoundWith
  <2>. QED  BY <1>2, <2>1
<1>5. js \in [Flows -> FlowRecord]
  BY DEF Sound
<1>. QED  BY <1>1, <1>2, <1>3, <1>4, <1>5

-----------------------------------------------------------------------------
(* The device.                                                             *)
LEMMA OutcomesAre ==
  ASSUME NEW o \in Outcomes
  PROVE  o.ok \subseteq Keys /\ o.hit \subseteq Keys /\ o.ok \subseteq o.hit
BY DEF Outcomes

LEMMA NothingDone ==
  KeyState /\ UNCHANGED <<owners, deviceVars, flash>> => KeyState' /\ KeptDown
BY DEF KeyState, KeyTypes, KeysAgree, NothingLeftDown, FlashKeys, KeptDown, deviceVars

(* Letting go: the counts fall by the flows that let go.                   *)
LEMMA CountsFall ==
  ASSUME NEW js, Counted(js, owners), owners \in [Keys -> Nat],
         NEW give, \A f \in Flows : give[f] \subseteq js[f].held,
         NEW ns, \A f \in Flows : ns[f].held = js[f].held \ give[f]
  PROVE  /\ OwnersAfter(give) \in [Keys -> Nat]
         /\ \A k \in Keys : OwnersAfter(give)[k] <= owners[k]
         /\ Counted(ns, OwnersAfter(give))
<1>1. ASSUME NEW k \in Keys
      PROVE  /\ OwnersAfter(give)[k] \in Nat /\ OwnersAfter(give)[k] <= owners[k]
             /\ OwnersAfter(give)[k] = Cardinality(Holders(ns, k))
  <2> DEFINE H == Holders(js, k)
             G == {f \in Flows : k \in give[f]}
  <2>1. G \subseteq H /\ H \subseteq Flows /\ Holders(ns, k) = H \ G
    BY DEF Holders
  <2>2. IsFiniteSet(H) /\ IsFiniteSet(G)
    BY <2>1, FlowsAreFinite, FS_Subset
  <2>3. Cardinality(H \ G) = Cardinality(H) - Cardinality(H \cap G)
    BY <2>2, FS_Difference
  <2>4. H \cap G = G
    BY <2>1
  <2>5. Cardinality(H) \in Nat /\ Cardinality(G) \in Nat /\ Cardinality(G) <= Cardinality(H)
    BY <2>1, <2>2, FS_CardinalityType, FS_Subset
  <2>6. owners[k] = Cardinality(H)
    BY DEF Counted
  <2>7. OwnersAfter(give)[k] = owners[k] - Cardinality(G)
    BY DEF OwnersAfter
  <2> HIDE DEF H, G
  <2>8. Cardinality(Holders(ns, k)) = Cardinality(H) - Cardinality(G)
    BY <2>1, <2>3, <2>4
  <2>. QED  BY <2>5, <2>6, <2>7, <2>8
<1>2. OwnersAfter(give) = [k \in Keys |-> OwnersAfter(give)[k]]
  BY DEF OwnersAfter
<1>3. OwnersAfter(give) \in [Keys -> Nat]
  BY <1>1, <1>2
<1>. QED  BY <1>1, <1>3 DEF Counted

(* The keys whose count falls to nothing are released.                     *)
LEMMA ReleaseKeeps ==
  ASSUME KeyState, NEW o \in Outcomes, NEW S,
         owners' \in [Keys -> Nat], \A k \in Keys : owners'[k] <= owners[k],
         S = {k \in Keys : owners[k] > 0 /\ owners'[k] <= 0},
         SendUp(S, o), UNCHANGED flash
  PROVE  KeyState' /\ KeptDown
<1>1. o.ok \subseteq Keys /\ o.hit \subseteq Keys /\ o.ok \subseteq o.hit
  BY OutcomesAre
<1>2. KeyTypes'
  BY <1>1 DEF KeyState, KeyTypes, SendUp, Doubt
<1>3. flash' \notin ledger'
  BY DEF KeyState, SendUp
<1>4. NothingLeftDown'
  BY <1>1 DEF KeyState, NothingLeftDown, FlashKeys, SendUp
<1>5. ASSUME NEW k \in Keys
      PROVE  /\ owners'[k] > 0 => k \in ledger'
             /\ k \in ledger' /\ owners'[k] = 0 => k \in doubtful'
             /\ k \notin doubtful' => (k \in down' <=> owners'[k] > 0 \/ flash' = k)
             /\ owners[k] > 0 /\ owners'[k] > 0 /\ k \in down => k \in down'
  <2>1. /\ owners[k] \in Nat /\ owners'[k] \in Nat /\ owners'[k] <= owners[k]
        /\ k \in S <=> owners[k] > 0 /\ owners'[k] = 0
        /\ owners[k] > 0 => k \in ledger
        /\ k \in ledger /\ owners[k] = 0 => k \in doubtful
        /\ k \notin doubtful => (k \in down <=> owners[k] > 0 \/ flash = k)
        /\ flash \notin ledger
    BY DEF KeyState, KeyTypes, KeysAgree
  <2>2. /\ k \in ledger' <=> k \in ledger /\ ~(k \in S /\ k \in o.ok)
        /\ k \in down' <=> k \in down /\ ~(k \in S /\ k \in ledger /\ k \in o.hit)
        /\ k \in doubtful' <=> \/ k \in doubtful /\ ~(k \in S /\ k \in ledger)
                               \/ k \in S /\ k \in ledger /\ k \notin o.ok
    BY DEF SendUp, Doubt
  <2>3. k \in S => k # flash
    BY <2>1
  <2>. QED  BY <1>1, <2>1, <2>2, <2>3
<1>6. KeysAgree' /\ KeptDown
  BY <1>5 DEF KeysAgree, KeptDown
<1>. QED  BY <1>2, <1>3, <1>4, <1>6 DEF KeyState

LEMMA LetGoKeeps ==
  ASSUME KeyState, NEW js, Counted(js, owners), NEW o \in Outcomes,
         NEW give, \A f \in Flows : give[f] \subseteq js[f].held,
         NEW ns, \A f \in Flows : ns[f].held = js[f].held \ give[f],
         LetGo(give, o), UNCHANGED flash
  PROVE  KeyState' /\ KeptDown /\ Counted(ns, owners')
<1>1. owners \in [Keys -> Nat] /\ owners' = OwnersAfter(give)
  BY DEF LetGo, KeyState, KeyTypes
<1>2. /\ owners' \in [Keys -> Nat] /\ (\A k \in Keys : owners'[k] <= owners[k])
      /\ Counted(ns, owners')
  BY <1>1, CountsFall
<1>3. SendUp(LastReleases(give), o)
  BY DEF LetGo
<1>4. LastReleases(give) = {k \in Keys : owners[k] > 0 /\ owners'[k] <= 0}
  BY <1>1 DEF LastReleases
<1>. QED  BY <1>2, <1>3, <1>4, ReleaseKeeps

(* Taking keys: the counts rise by the flow that takes them.               *)
LEMMA TakeKeeps ==
  ASSUME KeyState, flash = NoKey, NEW js, Counted(js, owners), NEW o \in Outcomes,
         NEW h \in Flows, NEW tried \in SUBSET Keys, tried \cap js[h].held = {},
         NEW ns, ns[h].held = js[h].held \cup tried,
         \A f \in Flows : f # h => ns[f].held = js[f].held,
         Take(tried, o), UNCHANGED flash
  PROVE  KeyState' /\ KeptDown /\ Counted(ns, owners')
<1>1. o.ok \subseteq Keys /\ o.hit \subseteq Keys /\ o.ok \subseteq o.hit
  BY OutcomesAre
<1>2. owners \in [Keys -> Nat]
  BY DEF KeyState, KeyTypes
<1>3. \A k \in Keys : owners'[k] = IF k \in tried THEN owners[k] + 1 ELSE owners[k]
  BY DEF Take
<1>4. owners' \in [Keys -> Nat]
  BY <1>2 DEF Take
<1>5. ASSUME NEW k \in Keys PROVE owners'[k] = Cardinality(Holders(ns, k))
  <2>1. owners[k] = Cardinality(Holders(js, k))
    BY DEF Counted
  <2>2. CASE k \in tried
    <3>1. Holders(ns, k) = Holders(js, k) \cup {h} /\ h \notin Holders(js, k)
      BY <2>2 DEF Holders
    <3>2. IsFiniteSet(Holders(js, k))
      BY FlowsAreFinite, FS_Subset DEF Holders
    <3>3. Cardinality(Holders(js, k) \cup {h}) = Cardinality(Holders(js, k)) + 1
      BY <3>1, <3>2, FS_AddElement
    <3>. QED  BY <1>3, <2>1, <2>2, <3>1, <3>3
  <2>3. CASE k \notin tried
    <3>1. Holders(ns, k) = Holders(js, k)
      BY <2>3 DEF Holders
    <3>. QED  BY <1>3, <2>1, <2>3, <3>1
  <2>. QED  BY <2>2, <2>3
<1> DEFINE first == {k \in tried : owners[k] = 0}
<1>6. SendDown(first, o) /\ first \subseteq Keys
  BY DEF Take
<1>7. KeyTypes'
  BY <1>1, <1>4, <1>6 DEF KeyState, KeyTypes, SendDown, Doubt
<1>8. flash' \notin ledger' /\ NothingLeftDown'
  <2>1. NoKey \notin Keys
    BY RulesAssumption
  <2>. QED  BY <1>6, <2>1 DEF KeyState, KeyTypes, NothingLeftDown, FlashKeys, SendDown
<1>9. ASSUME NEW k \in Keys
      PROVE  /\ owners'[k] > 0 => k \in ledger'
             /\ k \in ledger' /\ owners'[k] = 0 => k \in doubtful'
             /\ k \notin doubtful' => (k \in down' <=> owners'[k] > 0 \/ flash' = k)
             /\ owners[k] > 0 /\ owners'[k] > 0 /\ k \in down => k \in down'
  <2>1. /\ owners[k] \in Nat /\ owners'[k] = IF k \in tried THEN owners[k] + 1 ELSE owners[k]
        /\ k \in first <=> k \in tried /\ owners[k] = 0
        /\ owners[k] > 0 => k \in ledger
        /\ k \in ledger /\ owners[k] = 0 => k \in doubtful
        /\ k \notin doubtful => (k \in down <=> owners[k] > 0 \/ flash = k)
    BY <1>2, <1>3 DEF KeyState, KeysAgree
  <2>2. /\ k \in ledger' <=> k \in ledger \/ k \in first
        /\ k \in down' <=> k \in down \/ (k \in first /\ k \notin ledger /\ k \in o.hit)
        /\ k \in doubtful' <=> \/ k \in doubtful /\ ~(k \in first /\ k \notin ledger)
                               \/ k \in first /\ k \notin ledger /\ k \notin o.ok
    BY <1>6 DEF SendDown, Doubt
  <2> HIDE DEF first
  <2>3. flash # k /\ flash' # k
    BY RulesAssumption
  <2>. QED  BY <1>1, <2>1, <2>2, <2>3
<1>10. KeysAgree' /\ KeptDown
  BY <1>9 DEF KeysAgree, KeptDown
<1>11. Counted(ns, owners')
  BY <1>5 DEF Counted
<1>. QED  BY <1>7, <1>8, <1>10, <1>11 DEF KeyState

LEMMA CleanupKeeps ==
  ASSUME KeyState, HandOver, NEW js, Sound(js, acquired), Counted(js, owners),
         NEW o \in Outcomes, Cleanup(js, o), UNCHANGED flash
  PROVE  /\ KeyState' /\ KeptDown /\ HandOver'
         /\ Counted(Cleaned(js), owners') /\ Sound(Cleaned(js), acquired')
         /\ acquired' => OutputNeeded(Cleaned(js))
<1> DEFINE give == HeldBy(js, Ended(js))
<1>1. /\ Sound(Cleaned(js), acquired /\ OutputNeeded(js))
      /\ OutputNeeded(Cleaned(js)) <=> OutputNeeded(js)
      /\ \A f \in Flows : Cleaned(js)[f].held = js[f].held \ give[f]
  BY SoundCleaned
<1>2. \A f \in Flows : give[f] \subseteq js[f].held
  BY DEF HeldBy
<1>3. LetGo(give, o)
  BY DEF Cleanup
<1> HIDE DEF give
<1>4. KeyState' /\ KeptDown /\ Counted(Cleaned(js), owners')
  BY <1>1, <1>2, <1>3, LetGoKeeps
<1>5. acquired' = (acquired /\ OutputNeeded(js))
      /\ owned' = (owned /\ (acquired => OutputNeeded(js)))
  BY DEF Cleanup
<1>6. (acquired /\ OutputNeeded(js)) \in BOOLEAN
  OBVIOUS
<1>7. acquired' = owned' /\ acquired' \in BOOLEAN /\ (owned' => owned)
  BY <1>5, <1>6 DEF HandOver
<1>8. HandOver'
  BY <1>7 DEF HandOver
<1>9. Sound(Cleaned(js), acquired')
  BY <1>1, <1>5
<1>. QED  BY <1>1, <1>4, <1>5, <1>8, <1>9

(* Without the output nobody holds a key.                                  *)
LEMMA NobodyHolds ==
  ASSUME NEW js, NEW count, Counted(js, count), \A f \in Flows : js[f].held = {}
  PROVE  \A k \in Keys : count[k] = 0
<1> TAKE k \in Keys
<1>1. Holders(js, k) = {}
  BY DEF Holders
<1>. QED  BY <1>1, FS_EmptySet DEF Counted

LEMMA OnlyOwnersHold ==
  ASSUME Sound(job, acquired), Counted(job, owners), ~acquired
  PROVE  \A k \in Keys : owners[k] = 0
<1>1. \A f \in Flows : job[f].held = {}
  BY DEF Sound, FlowSound
<1>. QED  BY <1>1, NobodyHolds

(* Commands while no key is held: those of acquire() and those that end a  *)
(* flash pulse.                                                            *)
LEMMA CommandsKeep ==
  ASSUME KeyState, \A k \in Keys : owners[k] = 0, UNCHANGED owners,
         NEW o \in Outcomes, NEW tried \in SUBSET ledger,
         ledger' = ledger \ (tried \cap o.ok),
         down' = down \ ((FlashKeys \cup tried) \cap o.hit),
         doubtful' = Doubt(FlashKeys \cup tried, o),
         dropped' = (dropped \ ((FlashKeys \cup tried) \cap o.ok)) \cup (FlashKeys \ o.ok),
         flashLost' = flashLost \ (FlashKeys \cup tried),
         flash' = NoKey
  PROVE  KeyState' /\ KeptDown
<1>1. o.ok \subseteq Keys /\ o.hit \subseteq Keys /\ o.ok \subseteq o.hit
  BY OutcomesAre
<1>2. FlashKeys \subseteq Keys /\ NoKey \notin Keys
  BY RulesAssumption DEF KeyState, KeyTypes, FlashKeys
<1>3. KeyTypes'
  BY <1>1, <1>2 DEF KeyState, KeyTypes, Doubt
<1>4. flash' \notin ledger'
  BY <1>2 DEF KeyState, KeyTypes
<1>5. NothingLeftDown'
  BY <1>1 DEF KeyState, NothingLeftDown, FlashKeys
<1>6. ASSUME NEW k \in Keys
      PROVE  /\ owners'[k] > 0 => k \in ledger'
             /\ k \in ledger' /\ owners'[k] = 0 => k \in doubtful'
             /\ k \notin doubtful' => (k \in down' <=> owners'[k] > 0 \/ flash' = k)
             /\ owners[k] > 0 /\ owners'[k] > 0 /\ k \in down => k \in down'
  <2>1. /\ owners[k] = 0 /\ owners'[k] = 0 /\ flash' # k
        /\ k \in ledger => k \in doubtful /\ k # flash
        /\ k \notin doubtful => (k \in down <=> flash = k)
    BY <1>2 DEF KeyState, KeysAgree
  <2>2. /\ k \in FlashKeys <=> k = flash
        /\ k \in ledger' <=> k \in ledger /\ ~(k \in tried /\ k \in o.ok)
        /\ k \in down' <=> k \in down /\ ~((k \in FlashKeys \/ k \in tried) /\ k \in o.hit)
        /\ k \in doubtful' <=> \/ k \in doubtful /\ ~(k \in FlashKeys \/ k \in tried)
                               \/ (k \in FlashKeys \/ k \in tried) /\ k \notin o.ok
        /\ k \in tried => k \in ledger
    BY <1>2 DEF Doubt, FlashKeys
  <2>. QED  BY <1>1, <2>1, <2>2
<1>7. KeysAgree' /\ KeptDown
  BY <1>6 DEF KeysAgree, KeptDown
<1>. QED  BY <1>3, <1>4, <1>5, <1>7 DEF KeyState

LEMMA FlashKeeps ==
  ASSUME KeyState, UNCHANGED <<owners, ledger>>, NEW o \in Outcomes, NEW k \in Keys,
         flash = NoKey, k \notin ledger,
         flash' = (IF k \in o.ok THEN k ELSE NoKey),
         down' = down \cup ({k} \cap o.hit),
         doubtful' = Doubt({k}, o),
         dropped' = dropped \ {k},
         flashLost' = (flashLost \ {k}) \cup ({k} \ o.ok)
  PROVE  KeyState' /\ KeptDown
<1>1. o.ok \subseteq Keys /\ o.hit \subseteq Keys /\ o.ok \subseteq o.hit
  BY OutcomesAre
<1>2. KeyTypes'
  BY <1>1 DEF KeyState, KeyTypes, Doubt
<1>3. flash' \notin ledger' /\ NothingLeftDown'
  BY <1>1, RulesAssumption DEF KeyState, KeyTypes, NothingLeftDown, FlashKeys
<1>4. ASSUME NEW q \in Keys
      PROVE  /\ owners'[q] > 0 => q \in ledger'
             /\ q \in ledger' /\ owners'[q] = 0 => q \in doubtful'
             /\ q \notin doubtful' => (q \in down' <=> owners'[q] > 0 \/ flash' = q)
             /\ owners[q] > 0 /\ owners'[q] > 0 /\ q \in down => q \in down'
  <2>1. /\ owners[q] \in Nat /\ owners'[q] = owners[q] /\ flash # q
        /\ owners[q] > 0 => q \in ledger
        /\ q \in ledger /\ owners[q] = 0 => q \in doubtful
        /\ q \notin doubtful => (q \in down <=> owners[q] > 0 \/ flash = q)
    BY RulesAssumption DEF KeyState, KeyTypes, KeysAgree
  <2>2. /\ q \in down' <=> q \in down \/ (q = k /\ k \in o.hit)
        /\ q \in doubtful' <=> (q \in doubtful /\ q # k) \/ (q = k /\ k \notin o.ok)
        /\ q # k => flash' # q
        /\ k \in o.ok => flash' = k
    BY RulesAssumption DEF Doubt
  <2>. QED  BY <1>1, <2>1, <2>2
<1>5. KeysAgree' /\ KeptDown
  BY <1>4 DEF KeysAgree, KeptDown
<1>. QED  BY <1>2, <1>3, <1>5 DEF KeyState

(* finish(): all flows are gone and no key is held.                        *)
LEMMA AllEnd ==
  ASSUME NEW js, NEW acq, Sound(js, acq)
  PROVE  /\ Sound(Cleaned(Ends(js, Flows)), FALSE)
         /\ \A f \in Flows : /\ Cleaned(Ends(js, Flows))[f].held = {}
                             /\ Cleaned(Ends(js, Flows))[f].st # "live"
<1> DEFINE es == Ends(js, Flows)
<1>1. Sound(es, acq)
  BY SoundEnds
<1>2. \A f \in Flows : es[f].st # "live"
  <2> TAKE f \in Flows
  <2>1. f \in Family(js, f)
    BY DEF Family
  <2>2. f \in UNION {Family(js, u) : u \in Flows}
    BY <2>1
  <2>3. js[f] \in FlowRecord
    BY DEF Sound
  <2>. QED  BY <2>2, <2>3 DEF Ends, FlowRecord
<1> HIDE DEF es
<1>3. /\ Sound(Cleaned(es), acq /\ OutputNeeded(es))
      /\ \A f \in Flows : /\ es[f].st # "ended" => Cleaned(es)[f] = es[f]
                          /\ Cleaned(es)[f].st # "ended"
  BY <1>1, SoundCleaned
<1>4. \A f \in Flows : Cleaned(es)[f].st # "live"
  <2> TAKE f \in Flows
  <2>1. CASE es[f].st = "ended"
    BY <2>1, GoneIs DEF Cleaned
  <2>. QED  BY <1>2, <1>3, <2>1
<1>5. ~OutputNeeded(es)
  BY <1>2 DEF OutputNeeded, Live
<1>6. Sound(Cleaned(es), FALSE)
  BY <1>3, <1>5 DEF Sound, FlowSound
<1>7. \A f \in Flows : Cleaned(es)[f].held = {}
  BY <1>6 DEF Sound, FlowSound
<1>. QED  BY <1>4, <1>6, <1>7 DEF es

LEMMA FinishKeeps ==
  ASSUME KeyState, Sound(job, acquired), Counted(job, owners),
         NEW o \in Outcomes, NEW o2 \in Outcomes, NEW b \in BOOLEAN,
         FinishAll(o, o2, IF b THEN FlashKeys ELSE {}),
         flash' = IF b THEN NoKey ELSE flash
  PROVE  KeyState' /\ KeptDown /\ Counted(job', owners') /\ Sound(job', FALSE)
<1> DEFINE give == HeldBy(job, Flows)
           fk   == IF b THEN FlashKeys ELSE {}
<1>1. /\ o.ok \subseteq Keys /\ o.hit \subseteq Keys /\ o.ok \subseteq o.hit
      /\ o2.ok \subseteq Keys /\ o2.hit \subseteq Keys /\ o2.ok \subseteq o2.hit
  BY OutcomesAre
<1>2. /\ owners' = OwnersAfter(give) /\ job' = Cleaned(Ends(job, Flows))
      /\ owners \in [Keys -> Nat]
  BY DEF FinishAll, KeyState, KeyTypes
<1>3. Sound(job', FALSE) /\ \A f \in Flows : job'[f].held = {}
  BY <1>2, AllEnd
<1>4. \A f \in Flows : give[f] = job[f].held
  BY DEF HeldBy
<1>5. owners' \in [Keys -> Nat] /\ Counted(job', owners')
  BY <1>2, <1>3, <1>4, CountsFall
<1>6. \A k \in Keys : owners'[k] = 0
  BY <1>3, <1>5, NobodyHolds
<1>7. LastReleases(give) \cap ledger = {k \in ledger : owners[k] > 0}
  BY <1>2, <1>6 DEF LastReleases, KeyState, KeyTypes
<1> DEFINE first == {k \in ledger : owners[k] > 0}
           again == ledger \ (first \cap o.ok)
           unsure == (again \ o2.ok) \cup (fk \ o.ok)
           sent   == first \cup again \cup fk
<1>8. /\ ledger' = {}
      /\ down' = (down \ ((first \cup fk) \cap o.hit)) \ (again \cap o2.hit)
      /\ doubtful' = (doubtful \ sent) \cup unsure
      /\ dropped' = (dropped \ sent) \cup unsure
      /\ flashLost' = flashLost \ sent
  BY <1>7 DEF FinishAll
<1>9. fk \subseteq Keys /\ ledger \subseteq Keys /\ NoKey \notin Keys
  BY RulesAssumption DEF KeyState, KeyTypes, FlashKeys
<1>10. KeyTypes'
  BY <1>5, <1>8, <1>9 DEF KeyState, KeyTypes
<1>11. ASSUME NEW k \in Keys
       PROVE  /\ k \notin doubtful' => (k \in down' <=> owners'[k] > 0 \/ flash' = k)
              /\ k \in down' => k \in FlashKeys' \cup dropped' \cup flashLost'
  <2>1. /\ owners'[k] = 0
        /\ k \in first <=> k \in ledger /\ owners[k] > 0
        /\ owners[k] \in Nat /\ (owners[k] > 0 => k \in ledger)
        /\ k \in ledger => k # flash
        /\ k \notin doubtful => (k \in down <=> owners[k] > 0 \/ flash = k)
        /\ k \in down => k \in ledger \/ k = flash \/ k \in dropped \/ k \in flashLost
    BY <1>6 DEF KeyState, KeyTypes, KeysAgree, NothingLeftDown, FlashKeys
  <2>2. /\ k \in fk <=> b /\ k = flash
        /\ flash' = k <=> ~b /\ k = flash
        /\ k \in FlashKeys' <=> k = flash'
    BY <1>9 DEF FlashKeys
  <2>3. /\ k \in again <=> k \in ledger /\ ~(k \in first /\ k \in o.ok)
        /\ k \in unsure <=> (k \in again /\ k \notin o2.ok) \/ (k \in fk /\ k \notin o.ok)
        /\ k \in sent <=> k \in first \/ k \in again \/ k \in fk
    OBVIOUS
  <2> HIDE DEF first, again, unsure, sent, fk
  <2>4. /\ k \in down' <=> /\ k \in down
                           /\ ~((k \in first \/ k \in fk) /\ k \in o.hit)
                           /\ ~(k \in again /\ k \in o2.hit)
        /\ k \in doubtful' <=> (k \in doubtful /\ k \notin sent) \/ k \in unsure
        /\ k \in dropped' <=> (k \in dropped /\ k \notin sent) \/ k \in unsure
        /\ k \in flashLost' <=> k \in flashLost /\ k \notin sent
    BY <1>8
  <2>. QED  BY <1>1, <2>1, <2>2, <2>3, <2>4
<1>12. KeysAgree'
  BY <1>6, <1>8, <1>11 DEF KeysAgree
<1>13. NothingLeftDown'
  BY <1>10, <1>11 DEF KeyTypes, NothingLeftDown
<1>14. KeptDown
  BY <1>6 DEF KeptDown
<1>. QED  BY <1>3, <1>5, <1>8, <1>10, <1>12, <1>13, <1>14 DEF KeyState

-----------------------------------------------------------------------------
(* Ticks.                                                                  *)
LEMMA Together ==
  ASSUME config \in Configurations, UNCHANGED config, Sound(job', acquired'),
         Counted(job', owners'), KeyState', HandOver', TickTypes', StepState',
         phase' = "idle" /\ acquired' => OutputNeeded(job')
  PROVE  IInv'
<1>1. Sound(job, acquired)'
  BY DEF Sound, FlowSound, RuleOf
<1>2. Counted(job, owners)'
  BY DEF Counted, Holders
<1>3. OutputState'
  BY DEF OutputState, OutputNeeded, Live
<1>. QED  BY <1>1, <1>2, <1>3 DEF IInv

LEMMA HeadIn ==
  ASSUME TickTypes, todo # {}
  PROVE  Head \in Flows /\ Head \in todo
BY LeastIn DEF TickTypes, Head

LEMMA LeaveKeeps ==
  ASSUME TickTypes, phase = "run", disabled' \subseteq Rules, UNCHANGED pauses, Leave
  PROVE  TickTypes' /\ StepState' /\ phase' = "run"
<1>1. 0 \in 0..Budget
  BY BoundsAssumption
<1>2. phase' = "run" /\ visit' = "enter" /\ doing' = NoStep /\ budget' = 0
      /\ todo' \subseteq Flows
  BY DEF TickTypes, Leave
<1>3. TickTypes'
  BY <1>1, <1>2 DEF TickTypes
<1>. QED  BY <1>2, <1>3 DEF StepState

(* A step that succeeded or failed.  The flows are those of js, but for    *)
(* the pause of a sequence rule.                                           *)
LEMMA StepOver ==
  ASSUME TickTypes, Performing(Ops), disabled' \subseteq Rules, UNCHANGED pauses,
         NEW js, NEW acq, Sound(js, acq),
         js[Head].rule = job[Head].rule, js[Head].branch = job[Head].branch,
         Proceed(js) \/ Fail(js)
  PROVE  /\ TickTypes' /\ StepState' /\ phase' = "run" /\ Sound(job', acq)
         /\ \A f \in Flows : job'[f].held = js[f].held
<1>1. phase = "run" /\ todo # {} /\ visit = "steps" /\ Head \in Flows
  BY HeadIn DEF Performing, Active, AtHead
<1>2. js \in [Flows -> FlowRecord] /\ js[Head] \in FlowRecord /\ FlowSound(js[Head], acq)
  BY <1>1 DEF Sound
<1>3. CASE Proceed(js)
  <2>1. PICK p \in BOOLEAN :
          /\ p => ~js[Head].manual /\ Mode(Head) = "sequence"
          /\ job' = [js EXCEPT ![Head].paused = @ \/ p]
          /\ \/ Leave
             \/ /\ ~job'[Head].paused
                /\ doing' = NoStep /\ UNCHANGED <<phase, todo, visit, budget>>
    BY <1>3 DEF Proceed
  <2> DEFINE n == [js[Head] EXCEPT !.paused = @ \/ p]
  <2>2. /\ n \in FlowRecord /\ n.st = js[Head].st /\ n.manual = js[Head].manual
        /\ n.branch = js[Head].branch /\ n.rule = js[Head].rule /\ n.owns = js[Head].owns
        /\ n.held = js[Head].held /\ n.pulse = js[Head].pulse
        /\ n.paused = (js[Head].paused \/ p)
    <3>1. (js[Head].paused \/ p) \in BOOLEAN
      OBVIOUS
    <3>. QED  BY <1>2, <3>1 DEF FlowRecord
  <2>3. job' = [js EXCEPT ![Head] = n]
    BY <2>1
  <2> HIDE DEF n
  <2>4. p => ~n.manual /\ ~n.branch /\ RuleOf[n.rule].mode = "sequence"
    BY <2>1, <2>2 DEF Mode
  <2>5. FlowSound(n, acq)
    BY <1>2, <2>2, <2>4 DEF FlowSound
  <2>6. Sound(job', acq)
    BY <1>1, <2>3, <2>5, SoundWith
  <2>7. \A f \in Flows : job'[f].held = js[f].held
    BY <1>1, <1>2, <2>2, <2>3
  <2>8. CASE Leave
    BY <1>1, <2>6, <2>7, <2>8, LeaveKeeps
  <2>9. CASE ~job'[Head].paused /\ doing' = NoStep /\ UNCHANGED <<phase, todo, visit, budget>>
    <3>1. TickTypes' /\ phase' = "run"
      BY <1>1, <2>9 DEF TickTypes
    <3>2. StepState'
      BY <1>1, <2>9 DEF StepState, Head
    <3>. QED  BY <2>6, <2>7, <3>1, <3>2
  <2>. QED  BY <2>1, <2>8, <2>9
<1>4. CASE Fail(js)
  <2>1. job' = Ends(js, {Head}) /\ Leave
    BY <1>4 DEF Fail
  <2>. QED  BY <1>1, <2>1, SoundEnds, LeaveKeeps
<1>. QED  BY <1>3, <1>4

LEMMA InitIsSound == Init => IInv
<1> SUFFICES ASSUME Init PROVE IInv
  OBVIOUS
<1> USE DEF Init
<1>1. config \in Configurations
  OBVIOUS
<1>2. \A f \in Flows : FlowSound(job[f], acquired) /\ job[f].held = {}
  BY GoneIs, UnbornIs
<1>3. Sound(job, acquired)
  <2>1. \A f \in Flows : job[f] \in FlowRecord
    BY <1>2 DEF FlowSound
  <2>. QED  BY <1>2, <2>1 DEF Sound
<1>4. Counted(job, owners)
  <2>1. \A k \in Keys : Holders(job, k) = {}
    BY <1>2 DEF Holders
  <2>. QED  BY <2>1, FS_EmptySet DEF Counted
<1>5. KeyState
  BY RulesAssumption DEF KeyState, KeyTypes, KeysAgree, NothingLeftDown
<1>6. OutputState
  BY DEF OutputState, HandOver
<1>7. TickTypes
  BY BoundsAssumption DEF TickTypes
<1>8. StepState
  BY DEF StepState
<1>. QED  BY <1>1, <1>3, <1>4, <1>5, <1>6, <1>7, <1>8 DEF IInv

(* Steps that touch neither keys nor output.                               *)
LEMMA FlowsOnly ==
  ASSUME IInv, UNCHANGED <<config, owners, acquired, owned, flash, deviceVars>>,
         Sound(job', acquired), \A f \in Flows : job'[f].held = job[f].held,
         TickTypes', StepState', phase' = "idle" /\ acquired' => OutputNeeded(job')
  PROVE  IInv' /\ KeptDown
<1>1. KeyState' /\ KeptDown
  BY NothingDone DEF IInv
<1>2. Counted(job', owners')
  BY SameHolders DEF IInv
<1>3. HandOver' /\ Sound(job', acquired')
  BY DEF IInv, OutputState, HandOver
<1>. QED  BY <1>1, <1>2, <1>3, Together DEF IInv

LEMMA FieldSound ==
  ASSUME NEW js, NEW acq, Sound(js, acq), NEW h \in Flows
  PROVE  /\ Sound([js EXCEPT ![h].paused = FALSE], acq)
         /\ \A a \in BOOLEAN : Sound([js EXCEPT ![h].async = a], acq)
         /\ \A w \in 0..MaxFlows : Sound([js EXCEPT ![h].waits = w], acq)
         /\ Sound([js EXCEPT ![h].waits = 0], acq)
         /\ js \in [Flows -> FlowRecord]
<1>1. js \in [Flows -> FlowRecord] /\ js[h] \in FlowRecord /\ FlowSound(js[h], acq)
  BY DEF Sound
<1>2. FlowSound([js[h] EXCEPT !.paused = FALSE], acq)
  BY <1>1 DEF FlowSound, FlowRecord
<1>3. ASSUME NEW a \in BOOLEAN PROVE FlowSound([js[h] EXCEPT !.async = a], acq)
  BY <1>1 DEF FlowSound, FlowRecord
<1>4. ASSUME NEW w \in 0..MaxFlows PROVE FlowSound([js[h] EXCEPT !.waits = w], acq)
  BY <1>1 DEF FlowSound, FlowRecord
<1>5. Sound([js EXCEPT ![h] = [js[h] EXCEPT !.paused = FALSE]], acq)
  BY <1>2, SoundWith
<1>6. ASSUME NEW a \in BOOLEAN
      PROVE  Sound([js EXCEPT ![h] = [js[h] EXCEPT !.async = a]], acq)
  BY <1>3, SoundWith
<1>7. ASSUME NEW w \in 0..MaxFlows
      PROVE  Sound([js EXCEPT ![h] = [js[h] EXCEPT !.waits = w]], acq)
  BY <1>4, SoundWith
<1>8. 0 \in 0..MaxFlows
  BY BoundsAssumption
<1>. QED  BY <1>1, <1>5, <1>6, <1>7, <1>8

LEMMA InTurn ==
  ASSUME IInv, phase = "run", todo # {}
  PROVE  Head \in Flows /\ job \in [Flows -> FlowRecord] /\ FlowSound(job[Head], acquired)
BY HeadIn DEF IInv, Sound

(* The visit of a flow up to its steps.                                    *)
Before == SkipEnded \/ CancelFlow \/ AwaitOperation \/ NotDue \/ OutOfTurn

LEMMA BeforeKeeps ==
  ASSUME IInv, Before, UNCHANGED config
  PROVE  IInv' /\ KeptDown
<1>1. phase = "run" /\ todo # {} /\ Head \in Flows /\ job \in [Flows -> FlowRecord]
  BY InTurn DEF Before, SkipEnded, CancelFlow, AwaitOperation, NotDue, OutOfTurn, Fetching,
     Active, AtHead
<1>2. UNCHANGED <<owners, disabled, pauses, acquired, owned, flash, deviceVars>>
  BY DEF Before, SkipEnded, CancelFlow, AwaitOperation, NotDue, OutOfTurn, flowVars, outputVars
<1>3. TickTypes /\ disabled' \subseteq Rules /\ Sound(job, acquired)
  BY <1>2 DEF IInv, TickTypes
<1>4. Sound(job', acquired) /\ \A f \in Flows : job'[f].held = job[f].held
  <2>1. CASE SkipEnded \/ OutOfTurn
    BY <1>3, <2>1 DEF SkipEnded, OutOfTurn, flowVars
  <2>2. CASE CancelFlow
    BY <1>3, <2>2, SoundEnds DEF CancelFlow
  <2>3. CASE AwaitOperation
    <3> DEFINE js == [job EXCEPT ![Head].async = FALSE]
    <3>1. Sound(js, acquired) /\ \A f \in Flows : js[f].held = job[f].held
      <4>1. Sound(js, acquired)
        BY <1>1, <1>3, FieldSound
      <4>2. job[Head] \in FlowRecord
        BY <1>1
      <4>. QED  BY <1>1, <4>1, <4>2 DEF FlowRecord
    <3>2. job' = job \/ job' = js \/ job' = Ends(js, {Head})
      BY <2>3 DEF AwaitOperation
    <3> HIDE DEF js
    <3>. QED  BY <1>3, <3>1, <3>2, SoundEnds
  <2>4. CASE NotDue
    <3> DEFINE js == [job EXCEPT ![Head].waits = 0]
    <3>1. Sound(js, acquired) /\ \A f \in Flows : js[f].held = job[f].held
      <4>1. Sound(js, acquired)
        BY <1>1, <1>3, FieldSound
      <4>2. job[Head] \in FlowRecord
        BY <1>1
      <4>. QED  BY <1>1, <4>1, <4>2 DEF FlowRecord
    <3>2. job' = job \/ job' = js
      BY <2>4 DEF NotDue
    <3> HIDE DEF js
    <3>. QED  BY <1>3, <3>1, <3>2
  <2>. QED  BY <2>1, <2>2, <2>3, <2>4 DEF Before
<1>5. TickTypes' /\ StepState' /\ phase' = "run"
  <2>1. CASE Leave
    BY <1>1, <1>2, <1>3, <2>1, LeaveKeeps
  <2>2. CASE AwaitOperation /\ UNCHANGED tickVars
    <3>1. visit = "enter" /\ doing = NoStep
      BY <2>2 DEF AwaitOperation, Active, AtHead, IInv, StepState
    <3>. QED  BY <1>1, <1>2, <1>3, <2>2, <3>1 DEF TickTypes, StepState, tickVars
  <2>. QED  BY <2>1, <2>2 DEF Before, SkipEnded, CancelFlow, AwaitOperation, NotDue, OutOfTurn
<1>. QED  BY <1>2, <1>4, <1>5, FlowsOnly

LEMMA EnterStepsKeeps ==
  ASSUME IInv, EnterSteps, UNCHANGED config
  PROVE  IInv' /\ KeptDown
<1>1. phase = "run" /\ todo # {} /\ Head \in Flows /\ job \in [Flows -> FlowRecord]
      /\ job[Head] \in FlowRecord
  BY InTurn DEF EnterSteps, Active, AtHead
<1>2. job' = [job EXCEPT ![Head].waits = 0]
  BY DEF EnterSteps
<1>3. Sound(job', acquired)
  BY <1>1, <1>2, FieldSound DEF IInv
<1>4. /\ \A f \in Flows : job'[f].held = job[f].held
      /\ job'[Head].paused = job[Head].paused
  BY <1>1, <1>2 DEF FlowRecord
<1>5. doing = NoStep
  BY DEF EnterSteps, Active, AtHead, IInv, StepState
<1>6. /\ UNCHANGED <<owners, disabled, pauses, acquired, owned, flash, deviceVars, phase, todo,
                     doing>>
      /\ visit' = "steps" /\ budget' = Budget /\ ~job[Head].paused
  BY DEF EnterSteps, outputVars
<1>7. Budget \in 0..Budget
  BY BoundsAssumption
<1>8. TickTypes' /\ phase' = "run"
  BY <1>1, <1>6, <1>7 DEF IInv, TickTypes
<1>9. StepState'
  BY <1>1, <1>4, <1>5, <1>6 DEF StepState, Head
<1>. QED  BY <1>3, <1>4, <1>6, <1>8, <1>9, FlowsOnly

LEMMA ReleasePulseKeeps ==
  ASSUME IInv, ReleasePulse, UNCHANGED config
  PROVE  IInv' /\ KeptDown
<1> DEFINE give == Pulse(Head)
           js   == Without(job, give)
<1>1. PICK o \in Outcomes :
        /\ LetGo(give, o)
        /\ \/ job' = js /\ UNCHANGED tickVars
           \/ job' = Ends(js, {Head}) /\ Leave
  BY DEF ReleasePulse
<1>2. phase = "run" /\ todo # {} /\ Head \in Flows /\ visit = "enter"
  BY InTurn DEF ReleasePulse, Active, AtHead
<1>3. UNCHANGED <<disabled, acquired, owned, flash, pauses>>
  BY DEF ReleasePulse, outputVars
<1>4. \A f \in Flows : give[f] \subseteq job[f].held
  BY DEF IInv, Sound, FlowSound, Pulse
<1> HIDE DEF give
<1>5. Sound(js, acquired) /\ \A f \in Flows : js[f].held = job[f].held \ give[f]
  BY SoundWithout DEF IInv
<1>6. KeyState' /\ KeptDown /\ Counted(js, owners')
  BY <1>1, <1>3, <1>4, <1>5, LetGoKeeps DEF IInv
<1> HIDE DEF js
<1>7. Sound(job', acquired) /\ \A f \in Flows : job'[f].held = js[f].held
  BY <1>1, <1>5, SoundEnds
<1>8. Counted(job', owners')
  BY <1>6, <1>7, SameHolders
<1>9. TickTypes' /\ StepState' /\ phase' = "run"
  <2>1. CASE Leave
    BY <1>2, <1>3, <2>1, LeaveKeeps DEF IInv, TickTypes
  <2>2. CASE UNCHANGED tickVars
    <3>1. doing = NoStep
      BY <1>2 DEF IInv, StepState
    <3>. QED  BY <1>2, <1>3, <2>2, <3>1 DEF IInv, TickTypes, StepState, tickVars
  <2>. QED  BY <1>1, <2>1, <2>2
<1>10. HandOver' /\ Sound(job', acquired')
  BY <1>3, <1>7 DEF IInv, OutputState, HandOver
<1>. QED  BY <1>6, <1>8, <1>9, <1>10, Together DEF IInv

(* Steps of a script: fetched, and performed.                              *)
Owning(js, h, b) == [js EXCEPT ![h].owns = b]

LEMMA SoundOwns ==
  ASSUME NEW js, NEW acq, Sound(js, acq), NEW h \in Flows, js[h].st = "live",
         NEW b \in BOOLEAN, b => acq, js[h].owns => b
  PROVE  /\ Sound(Owning(js, h, b), acq)
         /\ Owning(js, h, b)[h].owns = b /\ Owning(js, h, b)[h].paused = js[h].paused
         /\ \A f \in Flows : Owning(js, h, b)[f].held = js[f].held
<1> DEFINE n == [js[h] EXCEPT !.owns = b]
<1>1. js \in [Flows -> FlowRecord] /\ js[h] \in FlowRecord /\ FlowSound(js[h], acq)
  BY DEF Sound
<1>2. /\ n \in FlowRecord /\ n.owns = b /\ n.st = js[h].st /\ n.paused = js[h].paused
      /\ n.manual = js[h].manual /\ n.branch = js[h].branch /\ n.rule = js[h].rule
      /\ n.held = js[h].held /\ n.pulse = js[h].pulse
  BY <1>1 DEF FlowRecord
<1> HIDE DEF n
<1>3. FlowSound(n, acq)
  BY <1>1, <1>2 DEF FlowSound
<1>4. Sound([js EXCEPT ![h] = n], acq)
  BY <1>3, SoundWith
<1>5. Owning(js, h, b) = [js EXCEPT ![h] = n]
  BY <1>1 DEF Owning, n
<1>. QED  BY <1>1, <1>2, <1>4, <1>5

LEMMA FetchKeeps ==
  ASSUME IInv, NEW s \in Steps, Fetch(s), UNCHANGED config
  PROVE  IInv' /\ KeptDown
<1>1. /\ phase = "run" /\ todo # {} /\ visit = "steps" /\ doing = NoStep /\ Head \in Flows
      /\ job[Head].st = "live" /\ budget > 0 /\ UNCHANGED <<owners, disabled, pauses>>
  BY InTurn DEF Fetch, Fetching, Active, AtHead
<1>2. Exclusive(s) \in BOOLEAN
  BY DEF Exclusive
<1>3. Sound(job, acquired) /\ TickTypes /\ HandOver /\ KeyState /\ ~job[Head].paused
  BY <1>1 DEF IInv, OutputState, StepState
<1>4. job[Head].owns \in BOOLEAN /\ (job[Head].owns => acquired)
  BY <1>1, <1>3 DEF Sound, FlowSound, FlowRecord
<1>5. budget - 1 \in 0..Budget
  BY <1>1, <1>3, BoundsAssumption DEF TickTypes
<1>6. CASE Exclusive(s) /\ ~acquired
  <2>1. PICK ready \in BOOLEAN, tried \in SUBSET ledger, o \in Outcomes :
          Acquire(s, ready, tried, o)
    BY <1>6 DEF Fetch
  <2>2. \A k \in Keys : owners[k] = 0
    BY <1>3, <1>6, OnlyOwnersHold DEF IInv
  <2>3. KeyState' /\ KeptDown
    <3>1. /\ ledger' = ledger \ (tried \cap o.ok)
          /\ down' = down \ ((FlashKeys \cup tried) \cap o.hit)
          /\ doubtful' = Doubt(FlashKeys \cup tried, o)
          /\ dropped' = (dropped \ ((FlashKeys \cup tried) \cap o.ok)) \cup (FlashKeys \ o.ok)
          /\ flashLost' = flashLost \ (FlashKeys \cup tried)
          /\ flash' = NoKey
      BY <2>1 DEF Acquire
    <3>. QED  BY <1>1, <1>3, <2>2, <3>1, CommandsKeep
  <2>4. flash' = NoKey
    BY <2>1 DEF Acquire
  <2>5. CASE /\ acquired' = TRUE /\ owned' = TRUE
             /\ job' = Owning(job, Head, TRUE)
             /\ doing' = s /\ budget' = budget - 1
             /\ UNCHANGED <<phase, todo, visit>>
    <3>1. Sound(job, TRUE)
      BY <1>3 DEF Sound, FlowSound
    <3>2. /\ Sound(job', TRUE) /\ job'[Head].owns /\ job'[Head].paused = job[Head].paused
          /\ \A f \in Flows : job'[f].held = job[f].held
      BY <1>1, <2>5, <3>1, SoundOwns
    <3>3. Counted(job', owners')
      BY <1>1, <3>2, SameHolders DEF IInv
    <3>4. HandOver' /\ Sound(job', acquired')
      BY <2>4, <2>5, <3>2 DEF HandOver
    <3>5. TickTypes' /\ phase' = "run"
      BY <1>1, <1>3, <1>5, <2>5 DEF TickTypes
    <3>6. StepState'
      BY <1>1, <1>3, <2>5, <3>2 DEF StepState, Head
    <3>. QED  BY <2>3, <3>3, <3>4, <3>5, <3>6, Together DEF IInv
  <2>6. CASE job' = Ends(job, {Head}) /\ Leave /\ UNCHANGED <<acquired, owned>>
    <3>1. Sound(job', acquired) /\ \A f \in Flows : job'[f].held = job[f].held
      BY <1>3, <2>6, SoundEnds
    <3>2. Counted(job', owners')
      BY <1>1, <3>1, SameHolders DEF IInv
    <3>3. HandOver' /\ Sound(job', acquired')
      BY <1>3, <2>4, <2>6, <3>1 DEF HandOver
    <3>4. TickTypes' /\ StepState' /\ phase' = "run"
      BY <1>1, <1>3, <2>6, LeaveKeeps DEF TickTypes
    <3>. QED  BY <2>3, <3>2, <3>3, <3>4, Together DEF IInv
  <2>. QED  BY <2>1, <2>5, <2>6 DEF Acquire, Owning
<1>7. CASE ~(Exclusive(s) /\ ~acquired)
  <2> DEFINE b == job[Head].owns \/ Exclusive(s)
  <2>1. /\ job' = Owning(job, Head, b)
        /\ doing' = s /\ budget' = budget - 1
        /\ UNCHANGED <<phase, todo, visit, acquired, owned, flash, deviceVars>>
    BY <1>7 DEF Fetch, Owning
  <2>2. b \in BOOLEAN /\ (b => acquired) /\ (job[Head].owns => b) /\ (Exclusive(s) => b)
    BY <1>2, <1>4, <1>7
  <2> HIDE DEF b
  <2>3. /\ Sound(job', acquired) /\ job'[Head].owns = b
        /\ job'[Head].paused = job[Head].paused
        /\ \A f \in Flows : job'[f].held = job[f].held
    BY <1>1, <1>3, <2>1, <2>2, SoundOwns
  <2>4. TickTypes' /\ phase' = "run"
    BY <1>1, <1>3, <1>5, <2>1 DEF TickTypes
  <2>5. StepState'
    BY <1>1, <1>3, <2>1, <2>2, <2>3 DEF StepState, Head
  <2>. QED  BY <1>1, <2>1, <2>3, <2>4, <2>5, FlowsOnly
<1>. QED  BY <1>6, <1>7

LEMMA ReachEndKeeps ==
  ASSUME IInv, ReachEnd, UNCHANGED config
  PROVE  IInv' /\ KeptDown
<1>1. /\ phase = "run" /\ todo # {} /\ Leave
      /\ UNCHANGED <<disabled, acquired, owned, flash, pauses>>
  BY DEF ReachEnd, Fetching, Active, AtHead, outputVars
<1>2. TickTypes' /\ StepState' /\ phase' = "run"
  BY <1>1, LeaveKeeps DEF IInv, TickTypes
<1>3. Sound(job, acquired)
  BY DEF IInv
<1>4. CASE UNCHANGED <<job, owners, deviceVars>>
  BY <1>1, <1>2, <1>3, <1>4, FlowsOnly
<1>5. CASE job' = Ends(job, {Head}) /\ UNCHANGED <<owners, deviceVars>>
  BY <1>1, <1>2, <1>3, <1>5, FlowsOnly, SoundEnds
<1>6. ASSUME NEW o \in Outcomes,
             LetGo(HeldBy(job, {Head}), o), job' = Without(job, HeldBy(job, {Head}))
      PROVE  IInv' /\ KeptDown
  <2> DEFINE give == HeldBy(job, {Head})
  <2>1. \A f \in Flows : give[f] \subseteq job[f].held
    BY DEF HeldBy
  <2> HIDE DEF give
  <2>2. Sound(job', acquired) /\ \A f \in Flows : job'[f].held = job[f].held \ give[f]
    BY <1>3, <1>6, SoundWithout DEF give
  <2>3. KeyState' /\ KeptDown /\ Counted(job', owners')
    BY <1>1, <1>6, <2>1, <2>2, LetGoKeeps DEF IInv, give
  <2>4. HandOver' /\ Sound(job', acquired')
    BY <1>1, <2>2 DEF IInv, OutputState, HandOver
  <2>. QED  BY <1>2, <2>3, <2>4, Together DEF IInv
<1>. QED  BY <1>4, <1>5, <1>6 DEF ReachEnd

LEMMA AtStep ==
  ASSUME IInv, NEW ops, Performing(ops), ops \subseteq Ops
  PROVE  /\ Performing(Ops) /\ doing \in Steps /\ doing.keys \subseteq Keys /\ doing.rule \in Rules
         /\ phase = "run" /\ todo # {} /\ Head \in Flows
         /\ job \in [Flows -> FlowRecord] /\ job[Head] \in FlowRecord
         /\ FlowSound(job[Head], acquired)
         /\ job[Head].st = "live" /\ ~job[Head].paused
         /\ ops \subseteq {"down", "up", "press", "move"} => job[Head].owns /\ acquired /\ flash = NoKey
         /\ TickTypes /\ KeyState /\ HandOver /\ Sound(job, acquired) /\ Counted(job, owners)
<1>1. phase = "run" /\ todo # {} /\ visit = "steps" /\ doing # NoStep /\ doing.op \in ops
      /\ job[Head].st = "live"
  BY DEF Performing, Active, AtHead
<1>2. TickTypes /\ KeyState /\ HandOver /\ Sound(job, acquired) /\ Counted(job, owners)
      /\ StepState
  BY DEF IInv, OutputState
<1>3. /\ Head \in Flows /\ job \in [Flows -> FlowRecord] /\ job[Head] \in FlowRecord
      /\ FlowSound(job[Head], acquired)
  BY <1>1, InTurn
<1>4. doing \in Steps
  BY <1>1, <1>2 DEF TickTypes
<1>5. Performing(Ops) /\ doing.keys \subseteq Keys /\ doing.rule \in Rules
  BY <1>1, <1>4 DEF Steps, Performing, Active, AtHead
<1>6. ~job[Head].paused /\ (Exclusive(doing) => job[Head].owns)
  BY <1>1, <1>2 DEF StepState
<1>7. ASSUME ops \subseteq {"down", "up", "press", "move"}
      PROVE  job[Head].owns /\ acquired /\ flash = NoKey
  <2>1. Exclusive(doing)
    BY <1>1, <1>7 DEF Exclusive
  <2>. QED  BY <1>2, <1>3, <1>6, <2>1 DEF FlowSound, HandOver
<1>. QED  BY <1>1, <1>2, <1>3, <1>4, <1>5, <1>6, <1>7

LEMMA PlainKeeps ==
  ASSUME IInv, PerformPlain \/ PerformSystem, UNCHANGED config
  PROVE  IInv' /\ KeptDown
<1>1. Performing({"other", "move"}) \/ Performing({"system"})
  BY DEF PerformPlain, PerformSystem
<1>2. /\ Performing(Ops) /\ Head \in Flows /\ phase = "run" /\ job \in [Flows -> FlowRecord]
      /\ job[Head] \in FlowRecord /\ TickTypes /\ Sound(job, acquired)
  BY <1>1, AtStep DEF Ops
<1>3. UNCHANGED <<owners, disabled, pauses, acquired, owned, flash, deviceVars>>
  BY DEF PerformPlain, PerformSystem, outputVars
<1>4. disabled' \subseteq Rules
  BY <1>2, <1>3 DEF TickTypes
<1>5. CASE job' = job /\ Leave
  BY <1>2, <1>3, <1>4, <1>5, LeaveKeeps, FlowsOnly
<1>6. CASE Proceed(job) \/ Fail(job)
  <2>1. /\ TickTypes' /\ StepState' /\ phase' = "run" /\ Sound(job', acquired)
        /\ \A f \in Flows : job'[f].held = job[f].held
    BY <1>2, <1>3, <1>4, <1>6, StepOver
  <2>. QED  BY <1>3, <2>1, FlowsOnly
<1>7. CASE PerformSystem
  <2> DEFINE js == [job EXCEPT ![Head].async = TRUE]
  <2>1. Sound(js, acquired)
    BY <1>2, FieldSound
  <2>2. /\ js[Head].rule = job[Head].rule /\ js[Head].branch = job[Head].branch
        /\ \A f \in Flows : js[f].held = job[f].held
    BY <1>2 DEF FlowRecord
  <2>3. Proceed(js)
    BY <1>7 DEF PerformSystem
  <2> HIDE DEF js
  <2>4. /\ TickTypes' /\ StepState' /\ phase' = "run" /\ Sound(job', acquired)
        /\ \A f \in Flows : job'[f].held = js[f].held
    BY <1>2, <1>3, <1>4, <2>1, <2>2, <2>3, StepOver
  <2>. QED  BY <1>3, <2>2, <2>4, FlowsOnly
<1>. QED  BY <1>5, <1>6, <1>7 DEF PerformPlain

(* A step that took keys, let go of some or started a flow: js has it all. *)
LEMMA StepKeeps ==
  ASSUME IInv, Performing(Ops), UNCHANGED <<config, pauses>>, disabled' \subseteq Rules,
         NEW js, Sound(js, acquired'), Counted(js, owners'), KeyState', KeptDown, HandOver',
         js[Head].rule = job[Head].rule, js[Head].branch = job[Head].branch,
         Proceed(js) \/ Fail(js)
  PROVE  IInv' /\ KeptDown
<1>1. /\ TickTypes' /\ StepState' /\ phase' = "run" /\ Sound(job', acquired')
      /\ \A f \in Flows : job'[f].held = js[f].held
  BY StepOver DEF IInv
<1>2. Counted(job', owners')
  BY <1>1, SameHolders
<1>. QED  BY <1>1, <1>2, Together DEF IInv

Taking(js, h, ks)  == [js EXCEPT ![h].held = @ \cup ks]
Clicking(js, h, ks) == [Taking(js, h, ks) EXCEPT ![h].pulse = ks]

LEMMA SoundTakes ==
  ASSUME NEW js, NEW acq, Sound(js, acq), NEW h \in Flows, js[h].st = "live", js[h].owns,
         ~js[h].paused, NEW ks \in SUBSET Keys
  PROVE  /\ Sound(Taking(js, h, ks), acq) /\ Sound(Clicking(js, h, ks), acq)
         /\ \A ns \in {Taking(js, h, ks), Clicking(js, h, ks)} :
              /\ ns[h].rule = js[h].rule /\ ns[h].branch = js[h].branch
              /\ ns[h].held = js[h].held \cup ks
              /\ \A f \in Flows : f # h => ns[f].held = js[f].held
<1>1. js \in [Flows -> FlowRecord] /\ js[h] \in FlowRecord /\ FlowSound(js[h], acq)
  BY DEF Sound
<1> DEFINE n == [js[h] EXCEPT !.held = @ \cup ks]
           c == [n EXCEPT !.pulse = ks]
<1>2. /\ n \in FlowRecord /\ n.st = "live" /\ n.owns /\ ~n.paused
      /\ n.rule = js[h].rule /\ n.branch = js[h].branch
      /\ n.held = js[h].held \cup ks /\ n.pulse = js[h].pulse
  BY <1>1 DEF FlowRecord
<1>3. Taking(js, h, ks) = [js EXCEPT ![h] = n]
  BY <1>1 DEF Taking
<1> HIDE DEF n
<1>4. /\ c \in FlowRecord /\ c.st = "live" /\ c.owns /\ ~c.paused
      /\ c.rule = js[h].rule /\ c.branch = js[h].branch
      /\ c.held = js[h].held \cup ks /\ c.pulse = ks
  BY <1>2 DEF FlowRecord
<1>5. Clicking(js, h, ks) = [js EXCEPT ![h] = c]
  BY <1>1, <1>3 DEF Clicking
<1> HIDE DEF c
<1>6. FlowSound(n, acq) /\ FlowSound(c, acq)
  BY <1>1, <1>2, <1>4 DEF FlowSound
<1>7. Sound([js EXCEPT ![h] = n], acq) /\ Sound([js EXCEPT ![h] = c], acq)
  BY <1>6, SoundWith
<1>. QED  BY <1>1, <1>2, <1>3, <1>4, <1>5, <1>7

LEMMA DownKeeps ==
  ASSUME IInv, PerformDown, UNCHANGED config
  PROVE  IInv' /\ KeptDown
<1>1. PICK tried \in SUBSET doing.keys, o \in Outcomes :
        /\ StopsAtFailure(doing.keys \ job[Head].held, tried, TakeFailed(tried, o))
        /\ Take(tried, o)
        /\ Proceed(Taking(job, Head, tried)) \/ Fail(Taking(job, Head, tried))
  BY DEF PerformDown, Taking
<1>2. /\ Performing(Ops) /\ doing.keys \subseteq Keys /\ Head \in Flows
      /\ job[Head].st = "live" /\ ~job[Head].paused /\ job[Head].owns /\ flash = NoKey
      /\ TickTypes /\ KeyState /\ HandOver /\ Sound(job, acquired) /\ Counted(job, owners)
  BY AtStep DEF PerformDown, Ops
<1>3. UNCHANGED <<disabled, pauses, acquired, owned, flash>>
  BY DEF PerformDown, outputVars
<1>4. tried \in SUBSET Keys /\ tried \cap job[Head].held = {}
  BY <1>1, <1>2 DEF StopsAtFailure
<1> DEFINE js == Taking(job, Head, tried)
<1>5. /\ Sound(js, acquired)
      /\ js[Head].rule = job[Head].rule /\ js[Head].branch = job[Head].branch
      /\ js[Head].held = job[Head].held \cup tried
      /\ \A f \in Flows : f # Head => js[f].held = job[f].held
  BY <1>2, <1>4, SoundTakes
<1> HIDE DEF js
<1>6. KeyState' /\ KeptDown /\ Counted(js, owners')
  BY <1>1, <1>2, <1>3, <1>4, <1>5, TakeKeeps
<1>7. HandOver' /\ Sound(js, acquired') /\ disabled' \subseteq Rules
  BY <1>2, <1>3, <1>5 DEF HandOver, TickTypes
<1>. QED  BY <1>1, <1>2, <1>3, <1>5, <1>6, <1>7, StepKeeps DEF js

LEMMA UpKeeps ==
  ASSUME IInv, PerformUp, UNCHANGED config
  PROVE  IInv' /\ KeptDown
<1>1. PICK tried \in SUBSET doing.keys, o \in Outcomes :
        LET give == [f \in Flows |-> IF f = Head THEN tried ELSE {}] IN
        /\ StopsAtFailure(doing.keys \cap job[Head].held, tried, Refused(give, o))
        /\ LetGo(give, o)
        /\ Proceed(Without(job, give)) \/ Fail(Without(job, give))
  BY DEF PerformUp
<1> DEFINE give == [f \in Flows |-> IF f = Head THEN tried ELSE {}]
           js   == Without(job, give)
<1>2. /\ Performing(Ops) /\ Head \in Flows /\ job \in [Flows -> FlowRecord]
      /\ job[Head] \in FlowRecord
      /\ TickTypes /\ KeyState /\ HandOver /\ Sound(job, acquired) /\ Counted(job, owners)
  BY AtStep DEF PerformUp, Ops
<1>3. UNCHANGED <<disabled, pauses, acquired, owned, flash>>
  BY DEF PerformUp, outputVars
<1>4. \A f \in Flows : give[f] \subseteq job[f].held
  BY <1>1 DEF StopsAtFailure
<1>5. js[Head].rule = job[Head].rule /\ js[Head].branch = job[Head].branch
  BY <1>2 DEF Without, FlowRecord
<1>6. LetGo(give, o) /\ (Proceed(js) \/ Fail(js))
  BY <1>1
<1> HIDE DEF give
<1>7. Sound(js, acquired) /\ \A f \in Flows : js[f].held = job[f].held \ give[f]
  BY <1>2, SoundWithout
<1> HIDE DEF js
<1>8. KeyState' /\ KeptDown /\ Counted(js, owners')
  BY <1>2, <1>3, <1>4, <1>6, <1>7, LetGoKeeps
<1>9. HandOver' /\ Sound(js, acquired') /\ disabled' \subseteq Rules
  BY <1>2, <1>3, <1>7 DEF HandOver, TickTypes
<1>. QED  BY <1>2, <1>3, <1>5, <1>6, <1>8, <1>9, StepKeeps

LEMMA PressKeeps ==
  ASSUME IInv, PerformPress, UNCHANGED config
  PROVE  IInv' /\ KeptDown
<1>1. /\ Performing(Ops) /\ doing.keys \subseteq Keys /\ Head \in Flows
      /\ job[Head].st = "live" /\ ~job[Head].paused /\ job[Head].owns /\ flash = NoKey
      /\ TickTypes /\ KeyState /\ HandOver /\ Sound(job, acquired) /\ Counted(job, owners)
  BY AtStep DEF PerformPress, Ops
<1>2. UNCHANGED <<disabled, pauses, acquired, owned, flash>> /\ disabled' \subseteq Rules
  BY <1>1 DEF PerformPress, outputVars, TickTypes
<1>3. HandOver'
  BY <1>1, <1>2 DEF HandOver
<1>4. CASE Fail(job) /\ UNCHANGED <<owners, deviceVars>>
  <2>1. KeyState' /\ KeptDown
    BY <1>1, <1>2, <1>4, NothingDone
  <2>2. Sound(job, acquired') /\ Counted(job, owners')
    BY <1>1, <1>2, <1>4
  <2>. QED  BY <1>1, <1>2, <1>3, <1>4, <2>1, <2>2, StepKeeps
<1>5. CASE ClickAllowed(doing.keys)
  <2>1. PICK tried \in SUBSET doing.keys, o \in Outcomes :
          /\ StopsAtFailure(doing.keys, tried, TakeFailed(tried, o))
          /\ Take(tried, o)
          /\ \/ /\ TakeFailed(tried, o) = {}
                /\ Proceed([Taking(job, Head, tried) EXCEPT ![Head].pulse = doing.keys])
             \/ Fail(Taking(job, Head, tried))
    BY <1>5 DEF PerformPress, Taking
  <2>2. tried \in SUBSET Keys /\ tried \cap job[Head].held = {}
    BY <1>1, <1>5, <2>1 DEF ClickAllowed
  <2>3. PICK js \in {Taking(job, Head, tried), Clicking(job, Head, tried)} :
          Proceed(js) \/ Fail(js)
    BY <2>1 DEF Clicking, StopsAtFailure
  <2>4. /\ Sound(js, acquired)
        /\ js[Head].rule = job[Head].rule /\ js[Head].branch = job[Head].branch
        /\ js[Head].held = job[Head].held \cup tried
        /\ \A f \in Flows : f # Head => js[f].held = job[f].held
    BY <1>1, <2>2, <2>3, SoundTakes
  <2>5. KeyState' /\ KeptDown /\ Counted(js, owners')
    BY <1>1, <1>2, <2>1, <2>2, <2>4, TakeKeeps
  <2>6. Sound(js, acquired')
    BY <1>2, <2>4
  <2>. QED  BY <1>1, <1>2, <1>3, <2>3, <2>4, <2>5, <2>6, StepKeeps
<1>. QED  BY <1>4, <1>5 DEF PerformPress

(* A flow started by a flow.                                               *)
LEMMA SpawnKeeps ==
  ASSUME IInv, Performing(Ops), job[Head].st = "live", UNCHANGED <<config, disabled, flash, pauses>>,
         NEW r \in Rules, NEW branch \in BOOLEAN, NEW wait \in BOOLEAN, HasRoom(job),
         Spawn(Born(r, Head, branch, TRUE), wait)
  PROVE  IInv' /\ KeptDown
<1> DEFINE new == Born(r, Head, branch, TRUE)
           cs  == Cleaned(job)
           f   == Least({g \in Flows : job[g].st = "unborn"})
           ss  == Started(cs, new)
           w   == IF wait THEN f ELSE 0
           js  == [ss EXCEPT ![Head].waits = w]
<1>1. PICK o \in Outcomes : Cleanup(job, o)
  BY DEF Spawn
<1>2. Proceed(js)
  BY DEF Spawn
<1>3. /\ Head \in Flows /\ Head \in 0..MaxFlows /\ KeyState /\ HandOver /\ TickTypes
      /\ Sound(job, acquired) /\ Counted(job, owners)
  BY InTurn, BoundsAssumption DEF IInv, OutputState, Performing, Active, AtHead, Flows
<1>4. /\ KeyState' /\ KeptDown /\ HandOver' /\ Counted(cs, owners') /\ Sound(cs, acquired')
  BY <1>1, <1>3, CleanupKeeps
<1>5. \A g \in Flows : /\ cs[g].st = "unborn" <=> job[g].st = "unborn"
                       /\ job[g].st # "ended" => cs[g] = job[g]
  BY <1>3, SoundCleaned
<1>6. f = Least({g \in Flows : cs[g].st = "unborn"}) /\ \E g \in Flows : cs[g].st = "unborn"
  <2>1. {g \in Flows : cs[g].st = "unborn"} = {g \in Flows : job[g].st = "unborn"}
    BY <1>5
  <2>. QED  BY <1>5, <2>1 DEF HasRoom
<1>7. FlowSound(new, acquired') /\ new.held = {}
  BY <1>3, BornIs
<1> HIDE DEF new, cs, f
<1>8. /\ Sound(ss, acquired') /\ f \in Flows /\ cs[f].st = "unborn" /\ ss = [cs EXCEPT ![f] = new]
      /\ \A g \in Flows : ss[g].held = cs[g].held /\ (g # f => ss[g] = cs[g])
  BY <1>4, <1>6, <1>7, SoundStarted
<1> HIDE DEF ss
<1>9. ss[Head] = job[Head]
  BY <1>3, <1>5, <1>8
<1>10. Counted(ss, owners')
  <2>1. \A g \in Flows : ss[g].held = cs[g].held
    BY <1>8
  <2>. QED  BY <1>4, <2>1, SameHolders
<1>11. w \in 0..MaxFlows
  BY <1>8, BoundsAssumption DEF Flows
<1> HIDE DEF w
<1>12. Sound(js, acquired') /\ ss \in [Flows -> FlowRecord]
  BY <1>3, <1>8, <1>11, FieldSound
<1>13. /\ js[Head].rule = job[Head].rule /\ js[Head].branch = job[Head].branch
       /\ \A g \in Flows : js[g].held = ss[g].held
  BY <1>3, <1>9, <1>12 DEF FlowRecord
<1> HIDE DEF js
<1>14. Counted(js, owners') /\ disabled' \subseteq Rules
  BY <1>3, <1>10, <1>13, SameHolders DEF TickTypes
<1>. QED  BY <1>2, <1>4, <1>12, <1>13, <1>14, StepKeeps

LEMMA StartingStepsKeep ==
  ASSUME IInv, PerformParallel \/ PerformCall, UNCHANGED config
  PROVE  IInv' /\ KeptDown
<1>1. Performing({"parallel"}) \/ Performing({"call"})
  BY DEF PerformParallel, PerformCall
<1>2. /\ Performing(Ops) /\ doing \in Steps /\ doing.rule \in Rules /\ Head \in Flows
      /\ job[Head] \in FlowRecord /\ job[Head].st = "live"
      /\ TickTypes /\ KeyState /\ HandOver /\ Sound(job, acquired) /\ Counted(job, owners)
  BY <1>1, AtStep DEF Ops
<1>3. UNCHANGED <<disabled, flash, pauses>> /\ disabled' \subseteq Rules
  BY <1>2 DEF PerformParallel, PerformCall, TickTypes
<1>4. CASE Fail(job) /\ UNCHANGED <<owners, acquired, owned, deviceVars>>
  <2>1. KeyState' /\ KeptDown /\ HandOver'
    BY <1>2, <1>3, <1>4, NothingDone DEF HandOver
  <2>2. Sound(job, acquired') /\ Counted(job, owners')
    BY <1>2, <1>4
  <2>. QED  BY <1>2, <1>3, <1>4, <2>1, <2>2, StepKeeps
<1>5. CASE HasRoom(job) /\ Spawn(Born(job[Head].rule, Head, TRUE, TRUE), FALSE)
  <2>1. job[Head].rule \in Rules
    BY <1>2 DEF FlowRecord
  <2>. QED  BY <1>2, <1>3, <1>5, <2>1, SpawnKeeps
<1>6. CASE HasRoom(job) /\ Spawn(Born(doing.rule, Head, FALSE, TRUE), doing.wait)
  <2>1. doing.wait \in BOOLEAN
    BY <1>2 DEF Steps
  <2>. QED  BY <1>2, <1>3, <1>6, <2>1, SpawnKeeps
<1>. QED  BY <1>4, <1>5, <1>6 DEF PerformParallel, PerformCall

Resumed(js, F) == [f \in Flows |-> IF f \in F THEN [js[f] EXCEPT !.paused = FALSE] ELSE js[f]]
Halted(js, F)  == [f \in Flows |-> IF f \in F THEN [js[f] EXCEPT !.paused = TRUE] ELSE js[f]]

LEMMA FlowPaused ==
  ASSUME NEW j, NEW acq, FlowSound(j, acq), NEW b \in BOOLEAN, b => j.held = {}
  PROVE  /\ FlowSound([j EXCEPT !.paused = b], acq)
         /\ [j EXCEPT !.paused = b].held = j.held
         /\ [j EXCEPT !.paused = b].rule = j.rule
         /\ [j EXCEPT !.paused = b].branch = j.branch
<1> DEFINE n == [j EXCEPT !.paused = b]
<1>1. /\ n \in FlowRecord /\ n.st = j.st /\ n.owns = j.owns /\ n.paused = b
      /\ n.manual = j.manual /\ n.branch = j.branch /\ n.rule = j.rule
      /\ n.held = j.held /\ n.pulse = j.pulse
  BY DEF FlowSound, FlowRecord
<1> HIDE DEF n
<1>2. FlowSound(n, acq)
  BY <1>1 DEF FlowSound
<1>. QED  BY <1>1, <1>2 DEF n

SameBut(ns, js) ==
    \A f \in Flows : /\ ns[f].held = js[f].held
                     /\ ns[f].rule = js[f].rule /\ ns[f].branch = js[f].branch

LEMMA SoundResumed ==
  ASSUME NEW js, NEW acq, Sound(js, acq), NEW F
  PROVE  Sound(Resumed(js, F), acq) /\ SameBut(Resumed(js, F), js)
<1>1. ASSUME NEW f \in Flows
      PROVE  /\ FlowSound(Resumed(js, F)[f], acq)
             /\ Resumed(js, F)[f].held = js[f].held
             /\ Resumed(js, F)[f].rule = js[f].rule
             /\ Resumed(js, F)[f].branch = js[f].branch
  <2>1. FlowSound(js[f], acq)
    BY DEF Sound
  <2>2. Resumed(js, F)[f] = IF f \in F THEN [js[f] EXCEPT !.paused = FALSE] ELSE js[f]
    BY DEF Resumed
  <2>. QED  BY <2>1, <2>2, FlowPaused
<1>2. \A f \in Flows : Resumed(js, F)[f] \in FlowRecord
  BY <1>1 DEF FlowSound
<1>3. Resumed(js, F) \in [Flows -> FlowRecord]
  BY <1>2 DEF Resumed
<1>. QED  BY <1>1, <1>3 DEF Sound, SameBut

LEMMA SoundHalted ==
  ASSUME NEW js, NEW acq, Sound(js, acq), NEW F, \A f \in F : js[f].held = {}
  PROVE  Sound(Halted(js, F), acq) /\ SameBut(Halted(js, F), js)
<1>1. ASSUME NEW f \in Flows
      PROVE  /\ FlowSound(Halted(js, F)[f], acq)
             /\ Halted(js, F)[f].held = js[f].held
             /\ Halted(js, F)[f].rule = js[f].rule
             /\ Halted(js, F)[f].branch = js[f].branch
  <2>1. FlowSound(js[f], acq)
    BY DEF Sound
  <2>2. Halted(js, F)[f] = IF f \in F THEN [js[f] EXCEPT !.paused = TRUE] ELSE js[f]
    BY DEF Halted
  <2>. QED  BY <2>1, <2>2, FlowPaused
<1>2. \A f \in Flows : Halted(js, F)[f] \in FlowRecord
  BY <1>1 DEF FlowSound
<1>3. Halted(js, F) \in [Flows -> FlowRecord]
  BY <1>2 DEF Halted
<1>. QED  BY <1>1, <1>3 DEF Sound, SameBut

LEMMA RuleStepsKeep ==
  ASSUME IInv, PerformDisable \/ PerformEnable, UNCHANGED config
  PROVE  IInv' /\ KeptDown
<1>1. Performing({"disable"}) \/ Performing({"enable", "resume"})
  BY DEF PerformDisable, PerformEnable
<1>2. /\ Performing(Ops) /\ doing.rule \in Rules /\ Head \in Flows
      /\ TickTypes /\ KeyState /\ HandOver /\ Sound(job, acquired) /\ Counted(job, owners)
  BY <1>1, AtStep DEF Ops
<1>3. UNCHANGED <<owners, acquired, owned, flash, pauses, deviceVars>> /\ disabled' \subseteq Rules
  BY <1>2 DEF PerformDisable, PerformEnable, outputVars, TickTypes
<1>4. PICK js \in {Ends(job, OfRule(doing.rule)), Resumed(job, OfRule(doing.rule))} :
        Proceed(js)
  BY DEF PerformDisable, PerformEnable, Resumed
<1>5. /\ Sound(js, acquired) /\ js[Head].rule = job[Head].rule
      /\ js[Head].branch = job[Head].branch
      /\ \A f \in Flows : js[f].held = job[f].held
  <2>1. CASE js = Ends(job, OfRule(doing.rule))
    BY <1>2, <2>1, SoundEnds
  <2>2. CASE js = Resumed(job, OfRule(doing.rule))
    BY <1>2, <2>2, SoundResumed DEF SameBut
  <2>. QED  BY <1>4, <2>1, <2>2
<1>6. KeyState' /\ KeptDown /\ HandOver'
  BY <1>2, <1>3, NothingDone DEF HandOver
<1>7. Sound(js, acquired') /\ Counted(js, owners')
  BY <1>2, <1>3, <1>5, SameHolders
<1>. QED  BY <1>2, <1>3, <1>4, <1>5, <1>6, <1>7, StepKeeps

LEMMA PauseKeeps ==
  ASSUME IInv, PerformPause, UNCHANGED config
  PROVE  IInv' /\ KeptDown
<1> DEFINE F    == OfRule(doing.rule)
           give == HeldBy(job, F)
           ws   == Without(job, give)
           js   == Halted(ws, F)
<1>1. /\ Performing(Ops) /\ doing.rule \in Rules /\ Head \in Flows
      /\ job \in [Flows -> FlowRecord] /\ job[Head] \in FlowRecord
      /\ TickTypes /\ KeyState /\ HandOver /\ Sound(job, acquired) /\ Counted(job, owners)
  BY AtStep DEF PerformPause, Ops
<1>2. UNCHANGED <<acquired, owned, flash, pauses>> /\ disabled' \subseteq Rules
  BY <1>1 DEF PerformPause, outputVars, TickTypes
<1>3. (\E o \in Outcomes : LetGo(give, o)) /\ Proceed(js)
  BY DEF PerformPause, Halted
<1>4. \A f \in Flows : give[f] = IF f \in F THEN job[f].held ELSE {}
  BY DEF HeldBy
<1>5. ws[Head].rule = job[Head].rule /\ ws[Head].branch = job[Head].branch
  BY <1>1 DEF Without, FlowRecord
<1>6. F \subseteq Flows
  BY DEF OfRule, Present, Live, Ended
<1> HIDE DEF give, F
<1>7. Sound(ws, acquired) /\ \A f \in Flows : ws[f].held = job[f].held \ give[f]
  BY <1>1, SoundWithout
<1> HIDE DEF ws
<1>8. \A f \in F : ws[f].held = {}
  BY <1>4, <1>6, <1>7
<1>9. /\ Sound(js, acquired) /\ js[Head].rule = ws[Head].rule /\ js[Head].branch = ws[Head].branch
      /\ \A f \in Flows : js[f].held = ws[f].held
  BY <1>1, <1>7, <1>8, SoundHalted DEF SameBut
<1> HIDE DEF js
<1>10. \A f \in Flows : give[f] \subseteq job[f].held /\ js[f].held = job[f].held \ give[f]
  BY <1>4, <1>7, <1>9
<1>11. KeyState' /\ KeptDown /\ Counted(js, owners')
  BY <1>1, <1>2, <1>3, <1>10, LetGoKeeps
<1>12. HandOver' /\ Sound(js, acquired')
  BY <1>1, <1>2, <1>9 DEF HandOver
<1>. QED  BY <1>1, <1>2, <1>3, <1>5, <1>9, <1>11, <1>12, StepKeeps

-----------------------------------------------------------------------------
(* Between the visits, and between ticks.                                  *)
LEMMA EndTickKeeps ==
  ASSUME IInv, EndTick, UNCHANGED config
  PROVE  IInv' /\ KeptDown
<1>1. PICK o \in Outcomes : Cleanup(job, o)
  BY DEF EndTick
<1>2. /\ todo = {} /\ job' = Cleaned(job) /\ phase' = "idle"
      /\ UNCHANGED <<disabled, flash, pauses, todo, visit, budget, doing>>
  BY DEF EndTick
<1>3. /\ KeyState' /\ KeptDown /\ HandOver' /\ Counted(job', owners') /\ Sound(job', acquired')
      /\ acquired' => OutputNeeded(job')
  BY <1>1, <1>2, CleanupKeeps DEF IInv, OutputState
<1>4. TickTypes' /\ StepState'
  BY <1>2 DEF IInv, TickTypes, StepState
<1>. QED  BY <1>3, <1>4, Together DEF IInv

LEMMA BeginKeeps ==
  ASSUME IInv, BeginTick \/ BeginRun, UNCHANGED config
  PROVE  IInv' /\ KeptDown
<1>1. UNCHANGED <<job, owners, disabled, acquired, owned, flash, pauses, deviceVars>>
  BY DEF BeginTick, BeginRun, flowVars, outputVars
<1>2. phase' # "idle" /\ visit = "enter" /\ doing = NoStep
  BY DEF BeginTick, BeginRun, IInv, StepState, TickTypes
<1>3. TickTypes'
  BY <1>1 DEF IInv, TickTypes, BeginTick, BeginRun, Present, Live, Ended
<1>4. StepState'
  BY <1>2 DEF StepState, BeginTick, BeginRun
<1>5. Sound(job', acquired)
  BY <1>1 DEF IInv
<1>. QED  BY <1>1, <1>2, <1>3, <1>4, <1>5, FlowsOnly

LEMMA TickUntouched ==
  ASSUME IInv, phase # "run", UNCHANGED tickVars, disabled' \subseteq Rules,
         pauses' \in 0..MaxPauses
  PROVE  TickTypes' /\ StepState'
BY DEF IInv, TickTypes, StepState, tickVars

LEMMA StartKeeps ==
  ASSUME IInv, NEW r \in Configured, NEW manual \in BOOLEAN, StartRule(r, manual),
         UNCHANGED config
  PROVE  IInv' /\ KeptDown
<1> DEFINE es  == Ends(job, Victims(r))
           cs  == Cleaned(es)
           new == Born(r, 0, FALSE, manual)
           f   == Least({g \in Flows : cs[g].st = "unborn"})
<1>1. PICK o \in Outcomes : Cleanup(es, o)
  BY DEF StartRule
<1>2. /\ phase = "poll" /\ HasRoom(job) /\ job' = Started(cs, new)
      /\ UNCHANGED <<disabled, flash, pauses, tickVars>>
  BY DEF StartRule
<1>3. Sound(job, acquired) /\ Counted(job, owners) /\ KeyState /\ HandOver /\ TickTypes
  BY DEF IInv, OutputState
<1>4. /\ Sound(es, acquired) /\ Counted(es, owners)
      /\ \A g \in Flows : es[g].st = "unborn" <=> job[g].st = "unborn"
  BY <1>3, SoundEnds, SameHolders
<1> HIDE DEF es
<1>5. /\ KeyState' /\ KeptDown /\ HandOver' /\ Counted(cs, owners') /\ Sound(cs, acquired')
      /\ \A g \in Flows : cs[g].st = "unborn" <=> es[g].st = "unborn"
  BY <1>1, <1>2, <1>3, <1>4, CleanupKeeps, SoundCleaned
<1> HIDE DEF cs
<1>6. \E g \in Flows : cs[g].st = "unborn"
  BY <1>2, <1>4, <1>5 DEF HasRoom
<1>7. FlowSound(new, acquired') /\ new.held = {}
  <2>1. r \in Rules /\ 0 \in 0..MaxFlows
    BY RulesAssumption, BoundsAssumption DEF IInv, Configured, RuleOf
  <2>. QED  BY <2>1, BornIs
<1> HIDE DEF new
<1>8. Sound(job', acquired') /\ \A g \in Flows : job'[g].held = cs[g].held
  <2>1. f = Least({g \in Flows : cs[g].st = "unborn"})
    OBVIOUS
  <2> HIDE DEF f
  <2>2. /\ Sound(Started(cs, new), acquired')
        /\ \A g \in Flows : Started(cs, new)[g].held = cs[g].held
    BY <1>5, <1>6, <1>7, <2>1, SoundStarted
  <2>. QED  BY <1>2, <2>2
<1>9. Counted(job', owners')
  BY <1>5, <1>8, SameHolders
<1>10. TickTypes' /\ StepState' /\ phase' = "poll"
  BY <1>2, <1>3, TickUntouched DEF TickTypes, tickVars
<1>. QED  BY <1>5, <1>8, <1>9, <1>10, Together DEF IInv

LEMMA RetriggerKeeps ==
  ASSUME IInv, NEW r \in Configured, NEW manual \in BOOLEAN, Retrigger(r, manual),
         UNCHANGED config
  PROVE  IInv' /\ KeptDown
<1> DEFINE f == Least(Blockers(r))
<1>1. /\ phase = "poll" /\ Blockers(r) # {}
      /\ job' = Ends(job, {f}) \/ job' = [job EXCEPT ![f].paused = FALSE]
      /\ UNCHANGED <<owners, disabled, acquired, owned, flash, pauses, deviceVars, tickVars>>
  BY DEF Retrigger, outputVars
<1>2. f \in Flows
  <2>1. Blockers(r) \subseteq Flows
    BY DEF Blockers, Live
  <2>. QED  BY <1>1, <2>1, LeastIn
<1> HIDE DEF f
<1>3. Sound(job', acquired) /\ \A g \in Flows : job'[g].held = job[g].held
  <2>1. CASE job' = Ends(job, {f})
    BY <2>1, SoundEnds DEF IInv
  <2>2. CASE job' = [job EXCEPT ![f].paused = FALSE]
    <3>1. Sound(job', acquired) /\ job \in [Flows -> FlowRecord]
      BY <1>2, <2>2, FieldSound DEF IInv
    <3>2. \A g \in Flows : job'[g].held = job[g].held
      BY <1>2, <2>2, <3>1 DEF FlowRecord
    <3>. QED  BY <3>1, <3>2
  <2>. QED  BY <1>1, <2>1, <2>2
<1>4. TickTypes' /\ StepState' /\ phase' = "poll"
  BY <1>1, TickUntouched DEF IInv, TickTypes, tickVars
<1>. QED  BY <1>1, <1>3, <1>4, FlowsOnly

(* finish(): at the stop of all rules, the stop key, a new configuration   *)
(* and the replacement of the devices.                                     *)
LEMMA AllStopKeeps ==
  ASSUME IInv, phase = "idle", NEW o \in Outcomes, NEW o2 \in Outcomes, NEW b \in BOOLEAN,
         FinishAll(o, o2, IF b THEN FlashKeys ELSE {}), flash' = (IF b THEN NoKey ELSE flash),
         disabled' \subseteq Rules, pauses' \in 0..MaxPauses, UNCHANGED <<config, tickVars>>
  PROVE  IInv' /\ KeptDown
<1>1. KeyState' /\ KeptDown /\ Counted(job', owners') /\ Sound(job', FALSE)
  BY FinishKeeps DEF IInv
<1>2. acquired' = FALSE /\ owned' = FALSE
  BY DEF FinishAll
<1>3. HandOver' /\ Sound(job', acquired')
  BY <1>1, <1>2 DEF HandOver
<1>4. TickTypes' /\ StepState'
  BY TickUntouched
<1>. QED  BY <1>1, <1>2, <1>3, <1>4, Together DEF IInv

LEMMA FinishesKeep ==
  ASSUME IInv, StopAll \/ StopKey \/ Configure \/ PauseDevices, UNCHANGED config
  PROVE  IInv' /\ KeptDown
<1>1. disabled \subseteq Rules /\ pauses \in 0..MaxPauses
  BY DEF IInv, TickTypes
<1>2. ASSUME NEW b \in BOOLEAN, Finish(b), disabled' \in {disabled, {}}
      PROVE  IInv' /\ KeptDown
  <2>1. PICK o \in Outcomes, o2 \in Outcomes : FinishAll(o, o2, IF b THEN FlashKeys ELSE {})
    BY <1>2 DEF Finish
  <2>2. /\ phase = "idle" /\ flash' = (IF b THEN NoKey ELSE flash)
        /\ UNCHANGED tickVars /\ disabled' \subseteq Rules /\ pauses' \in 0..MaxPauses
    BY <1>1, <1>2 DEF Finish
  <2>. QED  BY <2>1, <2>2, AllStopKeeps
<1>3. CASE PauseDevices
  <2>1. PICK o \in Outcomes, o2 \in Outcomes : FinishAll(o, o2, FlashKeys)
    BY <1>3 DEF PauseDevices
  <2>2. /\ phase = "idle" /\ flash' = NoKey
        /\ UNCHANGED tickVars /\ disabled' \subseteq Rules
    BY <1>1, <1>3 DEF PauseDevices
  <2>3. pauses' \in 0..MaxPauses
    BY <1>1, <1>3, BoundsAssumption DEF PauseDevices
  <2>. QED  BY <2>1, <2>2, <2>3, AllStopKeeps
<1>. QED  BY <1>2, <1>3 DEF StopAll, StopKey, Configure

LEMMA ResumeDevicesKeeps ==
  ASSUME IInv, ResumeDevices, UNCHANGED config
  PROVE  IInv' /\ KeptDown
<1>1. /\ phase = "idle" /\ phase' = "idle" /\ pauses > 0 /\ pauses' = pauses - 1
      /\ UNCHANGED <<job, owners, disabled, acquired, owned, flash, deviceVars, tickVars>>
  BY DEF ResumeDevices, flowVars, tickVars
<1>2. disabled' \subseteq Rules /\ pauses' \in 0..MaxPauses
  BY <1>1, BoundsAssumption DEF IInv, TickTypes
<1>3. TickTypes' /\ StepState'
  BY <1>1, <1>2, TickUntouched
<1>4. Sound(job', acquired) /\ (acquired' => OutputNeeded(job'))
  BY <1>1 DEF IInv, OutputState
<1>. QED  BY <1>1, <1>3, <1>4, FlowsOnly

LEMMA FlashesKeep ==
  ASSUME IInv, (\E k \in Keys : BeginFlash(k)) \/ EndFlash, UNCHANGED config
  PROVE  IInv' /\ KeptDown
<1>1. /\ phase = "idle"
      /\ UNCHANGED <<job, owners, disabled, acquired, owned, pauses, ledger, tickVars>>
  BY DEF BeginFlash, EndFlash, flowVars
<1>2. KeyState /\ HandOver /\ Sound(job, acquired) /\ Counted(job, owners)
      /\ (acquired => OutputNeeded(job)) /\ disabled \subseteq Rules /\ pauses \in 0..MaxPauses
  BY <1>1 DEF IInv, OutputState, TickTypes
<1>3. ~owned
  BY <1>2 DEF BeginFlash, EndFlash, HandOver
<1>4. KeyState' /\ KeptDown
  <2>1. ASSUME NEW k \in Keys, BeginFlash(k) PROVE KeyState' /\ KeptDown
    <3>1. PICK o \in Outcomes :
            /\ flash' = IF k \in o.ok THEN k ELSE NoKey
            /\ down' = down \cup ({k} \cap o.hit)
            /\ doubtful' = Doubt({k}, o)
            /\ dropped' = dropped \ {k}
            /\ flashLost' = (flashLost \ {k}) \cup ({k} \ o.ok)
      BY <2>1 DEF BeginFlash
    <3>2. flash = NoKey /\ k \notin ledger
      BY <2>1 DEF BeginFlash
    <3>. QED  BY <1>1, <1>2, <3>1, <3>2, FlashKeeps
  <2>2. CASE EndFlash
    <3>1. PICK o \in Outcomes :
            /\ down' = down \ (FlashKeys \cap o.hit)
            /\ doubtful' = Doubt(FlashKeys, o)
            /\ dropped' = (dropped \ FlashKeys) \cup (FlashKeys \ o.ok)
            /\ flashLost' = flashLost \ FlashKeys
      BY <2>2 DEF EndFlash
    <3>2. /\ ledger' = ledger \ ({} \cap o.ok)
          /\ down' = down \ ((FlashKeys \cup {}) \cap o.hit)
          /\ doubtful' = Doubt(FlashKeys \cup {}, o)
          /\ dropped' = (dropped \ ((FlashKeys \cup {}) \cap o.ok)) \cup (FlashKeys \ o.ok)
          /\ flashLost' = flashLost \ (FlashKeys \cup {})
          /\ flash' = NoKey
      <4>1. FlashKeys \cup {} = FlashKeys
        OBVIOUS
      <4>2. (dropped \ FlashKeys) \cup (FlashKeys \ o.ok)
              = (dropped \ (FlashKeys \cap o.ok)) \cup (FlashKeys \ o.ok)
        OBVIOUS
      <4>. QED  BY <1>1, <2>2, <3>1, <4>1, <4>2 DEF EndFlash
    <3>3. \A k \in Keys : owners[k] = 0
      BY <1>2, <1>3, OnlyOwnersHold DEF HandOver
    <3>. QED  BY <1>1, <1>2, <3>2, <3>3, CommandsKeep
  <2>. QED  BY <2>1, <2>2
<1>5. HandOver' /\ Sound(job', acquired') /\ Counted(job', owners')
  BY <1>1, <1>2, <1>3 DEF HandOver
<1>6. TickTypes' /\ StepState'
  BY <1>1, <1>2, TickUntouched
<1>. QED  BY <1>1, <1>2, <1>4, <1>5, <1>6, Together DEF IInv

LEMMA NextKeeps == IInv /\ [Next]_vars => IInv' /\ (KeptDown \/ UNCHANGED vars)
<1> SUFFICES ASSUME IInv, [Next]_vars PROVE IInv' /\ (KeptDown \/ UNCHANGED vars)
  OBVIOUS
<1>1. CASE UNCHANGED vars
  <2>1. IInv'
    BY <1>1 DEF IInv, Sound, FlowSound, RuleOf, Counted, Holders, KeyState, KeyTypes, KeysAgree,
       NothingLeftDown, FlashKeys, OutputState, HandOver, OutputNeeded, Live, TickTypes,
       StepState, Head, vars, flowVars, outputVars, deviceVars, tickVars
  <2>. QED  BY <1>1, <2>1
<1>2. CASE TickStep
  <2>1. UNCHANGED config
    BY <1>2 DEF TickStep
  <2>2. ASSUME NEW r \in Configured, NEW s \in RuleOf[r].steps, Fetch(s)
        PROVE  IInv' /\ KeptDown
    <3>1. s \in Steps
      BY RulesAssumption DEF IInv, Configured, RuleOf, RuleSettings
    <3>. QED  BY <2>1, <2>2, <3>1, FetchKeeps
  <2>3. CASE VisitStep
    BY <2>1, <2>2, <2>3, BeforeKeeps, ReleasePulseKeeps, EnterStepsKeeps, ReachEndKeeps,
       PlainKeeps, DownKeeps, UpKeeps, PressKeeps, StartingStepsKeep, RuleStepsKeep, PauseKeeps
    DEF VisitStep, Before
  <2>. QED  BY <1>2, <2>1, <2>3, BeginKeeps, EndTickKeeps DEF TickStep
<1>3. CASE EngineStep
  BY <1>3, BeginKeeps, StartKeeps, RetriggerKeeps, FinishesKeep, ResumeDevicesKeeps, FlashesKeep
  DEF EngineStep
<1>. QED  BY <1>1, <1>2, <1>3 DEF Next

-----------------------------------------------------------------------------
LEMMA AlwaysSound == Spec => []IInv
BY InitIsSound, NextKeeps, PTL DEF Spec

(* Holder counts are right, the device holds a key exactly while somebody  *)
(* holds it unless its last command failed, and what is down is known to   *)
(* the ledger or to the flash pulse, or its release was sent and not       *)
(* confirmed, or it is a flash press that failed, which beginFlash forgets *)
(* (hold, releaseHeld and cleanup of rule_executor.h, button, releaseFlash *)
(* and finish of macro_engine.cpp).                                        *)
THEOREM KeysInvHolds == Spec => []KeysInv
<1>1. IInv => KeysInv
  <2> SUFFICES ASSUME IInv PROVE KeysInv
    OBVIOUS
  <2>1. TypeOK
    <3>1. /\ job \in [Flows -> FlowRecord]
          /\ \A f \in Flows : /\ job[f].pulse \subseteq job[f].held
                              /\ job[f].held # {} => f \in Present(job)
      BY DEF IInv, Sound, FlowSound, Present, Live, Ended
    <3>. QED  BY <3>1 DEF IInv, KeyState, KeyTypes, OutputState, HandOver, TickTypes, TypeOK
  <2>2. OwnersMatchHolds
    BY DEF IInv, Counted, Holders, OwnersMatchHolds
  <2>3. DeviceFollowsHolders /\ NothingLeftDown
    BY DEF IInv, KeyState, KeysAgree, DeviceFollowsHolders
  <2>. QED  BY <2>1, <2>2, <2>3 DEF KeysInv
<1>. QED  BY <1>1, AlwaysSound, PTL

(* Keys are held only by flows that own the output, and the aim loop and   *)
(* the flash pulse are kept off meanwhile (ensureExecutor, outputOwned).   *)
THEOREM HoldersOwnOutputHolds == Spec => []HoldersOwnOutput
<1>1. IInv => HoldersOwnOutput
  BY DEF IInv, Sound, FlowSound, OutputState, HandOver, HoldersOwnOutput
<1>. QED  BY <1>1, AlwaysSound, PTL

(* Flows that a rule paused hold no key, and between ticks the output is   *)
(* with the executor exactly while a running flow needs it (cleanup).      *)
THEOREM IdleHoldsNothingHolds == Spec => []IdleHoldsNothing
<1>1. IInv => IdleHoldsNothing
  <2> SUFFICES ASSUME IInv PROVE IdleHoldsNothing
    OBVIOUS
  <2>1. PausedHoldsNothing
    <3> SUFFICES ASSUME NEW f \in Live(job), job[f].paused,
                        job[f].manual \/ Mode(f) # "sequence"
                 PROVE  job[f].held = {}
      BY DEF PausedHoldsNothing
    <3>1. f \in Flows /\ job[f].st = "live" /\ FlowSound(job[f], acquired)
      BY DEF Live, IInv, Sound
    <3>2. job[f].manual \/ job[f].branch \/ RuleOf[job[f].rule].mode # "sequence"
      BY DEF Mode
    <3>. QED  BY <3>1, <3>2 DEF FlowSound
  <2>2. OutputReturned
    <3>1. OutputNeeded(job) => acquired
      BY DEF IInv, Sound, FlowSound, OutputNeeded, Live
    <3>. QED  BY <3>1 DEF IInv, OutputState, HandOver, OutputReturned
  <2>. QED  BY <2>1, <2>2 DEF IdleHoldsNothing
<1>. QED  BY <1>1, AlwaysSound, PTL

(* A key two flows hold is not released at the device when one of them     *)
(* lets go of it, whatever else happens in the step (hold, releaseHeld).   *)
THEOREM SharedKeyStaysDownHolds == Spec => SharedKeyStaysDown
<1>1. IInv /\ [Next]_vars
        => [\A k \in Keys : owners[k] > 0 /\ owners'[k] > 0 /\ k \in down => k \in down']_vars
  BY NextKeeps DEF KeptDown
<1>. QED  BY <1>1, AlwaysSound, PTL DEF Spec, SharedKeyStaysDown

-----------------------------------------------------------------------------
(* Flows: which there may be together, for any rules and scripts, any      *)
(* number of flows and any depth of calls.                                 *)

(* The fields of a table of flows that say who belongs to whom.            *)
Typed(js) == js \in [Flows -> FlowRecord]

(* New flows get the least number that no flow had before.                 *)
NumbersRise(js) ==
    \A f, g \in Flows : js[f].st = "unborn" /\ js[g].st \in {"live", "ended"} => g < f

ParentsLive(js) ==
    \A f \in Flows : js[f].st = "live" /\ js[f].parent # 0
                       => js[f].parent \in Flows /\ js[js[f].parent].st = "live"

(* A flow waits for one it started, or for one that is no more.            *)
WaitsOwn(js) ==
    \A f, g \in Flows : js[f].st = "live" /\ js[f].waits = g
                          => /\ js[g].st # "unborn"
                             /\ js[g].st = "live" => f < g /\ js[g].parent = f

Apart(js) ==
    \A f, g \in Flows :
        f # g /\ js[f].st = "live" /\ js[g].st = "live"
          => /\ js[f].parent = 0 /\ js[g].parent = 0 => ~Conflict(js[f].rule, js[g].rule)
             /\ ~js[f].branch /\ ~js[g].branch => js[f].rule # js[g].rule

Families(js) == NumbersRise(js) /\ ParentsLive(js) /\ WaitsOwn(js) /\ Apart(js)

(* Nobody starts or ends, and who waited waits on or no longer.            *)
Quiet(js, ns) ==
    \A f \in Flows :
        /\ ns[f].st = js[f].st /\ ns[f].rule = js[f].rule /\ ns[f].branch = js[f].branch
        /\ ns[f].parent = js[f].parent
        /\ ns[f].waits = js[f].waits \/ ns[f].waits = 0

-----------------------------------------------------------------------------
LEMMA FlowsAreNat == Flows \subseteq Nat /\ 0 \notin Flows
BY BoundsAssumption DEF Flows

LEMMA QuietKeeps ==
  ASSUME NEW js, Families(js), NEW ns, Quiet(js, ns)
  PROVE  Families(ns)
<1>1. NumbersRise(ns) /\ ParentsLive(ns)
  BY DEF Families, Quiet, NumbersRise, ParentsLive
<1>2. WaitsOwn(ns)
  BY FlowsAreNat DEF Families, Quiet, WaitsOwn
<1>3. Apart(ns)
  BY DEF Families, Quiet, Apart
<1>. QED  BY <1>1, <1>2, <1>3 DEF Families

LEMMA QuietTwice ==
  ASSUME NEW js, NEW ms, NEW ns, Quiet(js, ms), Quiet(ms, ns)
  PROVE  Quiet(js, ns)
BY DEF Quiet

(* One flow changes what no family is about.                               *)
LEMMA QuietOne ==
  ASSUME NEW js, Typed(js), NEW h \in Flows, NEW v
  PROVE  /\ Quiet(js, js)
         /\ Quiet(js, [js EXCEPT ![h].async = v]) /\ Quiet(js, [js EXCEPT ![h].paused = v])
         /\ Quiet(js, [js EXCEPT ![h].owns = v]) /\ Quiet(js, [js EXCEPT ![h].held = v])
         /\ Quiet(js, [js EXCEPT ![h].pulse = v]) /\ Quiet(js, [js EXCEPT ![h].waits = 0])
<1>1. Quiet(js, js)
  BY DEF Quiet
<1>2. Quiet(js, [js EXCEPT ![h].async = v]) /\ Quiet(js, [js EXCEPT ![h].paused = v])
  BY DEF Typed, FlowRecord, Quiet
<1>3. Quiet(js, [js EXCEPT ![h].owns = v]) /\ Quiet(js, [js EXCEPT ![h].held = v])
  BY DEF Typed, FlowRecord, Quiet
<1>4. Quiet(js, [js EXCEPT ![h].pulse = v]) /\ Quiet(js, [js EXCEPT ![h].waits = 0])
  BY DEF Typed, FlowRecord, Quiet
<1>. QED  BY <1>1, <1>2, <1>3, <1>4

LEMMA QuietWithout ==
  ASSUME NEW js, Typed(js), NEW give
  PROVE  Quiet(js, Without(js, give))
BY DEF Typed, FlowRecord, Quiet, Without

(* The next step of a flow, or a pause before it.                          *)
LEMMA QuietProceed ==
  ASSUME NEW js, Typed(js), Head \in Flows, Proceed(js)
  PROVE  Quiet(js, job')
<1>1. PICK p \in BOOLEAN : job' = [js EXCEPT ![Head].paused = @ \/ p]
  BY DEF Proceed
<1>. QED  BY <1>1 DEF Typed, FlowRecord, Quiet

-----------------------------------------------------------------------------
(* end() leaves no flow running whose parent it ended.                     *)
LEMMA FamilyIs ==
  ASSUME NEW js, NEW u \in Flows
  PROVE  /\ u \in Family(js, u)
         /\ \A g \in Flows : js[g].parent \in Family(js, u) => g \in Family(js, u)
BY DEF Family

LEMMA EndsFields ==
  ASSUME NEW js, Typed(js), NEW U
  PROVE  /\ Typed(Ends(js, U))
         /\ \A f \in Flows :
              /\ Ends(js, U)[f].rule = js[f].rule /\ Ends(js, U)[f].branch = js[f].branch
              /\ Ends(js, U)[f].parent = js[f].parent /\ Ends(js, U)[f].waits = js[f].waits
              /\ Ends(js, U)[f].st = IF /\ js[f].st = "live"
                                        /\ \E u \in U : f \in Family(js, u)
                                     THEN "ended" ELSE js[f].st
<1> DEFINE all == UNION {Family(js, u) : u \in U}
<1>1. \A f : f \in all <=> \E u \in U : f \in Family(js, u)
  OBVIOUS
<1>2. Ends(js, U) = [f \in Flows |-> IF f \in all /\ js[f].st = "live"
                                     THEN [js[f] EXCEPT !.st = "ended"] ELSE js[f]]
  BY DEF Ends
<1> HIDE DEF all
<1>. QED  BY <1>1, <1>2 DEF Typed, FlowRecord

LEMMA EndsKeeps ==
  ASSUME NEW js, Typed(js), Families(js), NEW U, U \subseteq Flows
  PROVE  /\ Families(Ends(js, U)) /\ Typed(Ends(js, U))
         /\ \A f \in Flows : Ends(js, U)[f].st = "live" => js[f].st = "live" /\ f \notin U
<1> DEFINE ns == Ends(js, U)
<1>1. /\ Typed(ns)
      /\ \A f \in Flows : /\ ns[f].rule = js[f].rule /\ ns[f].branch = js[f].branch
                          /\ ns[f].parent = js[f].parent /\ ns[f].waits = js[f].waits
                          /\ ns[f].st = "unborn" <=> js[f].st = "unborn"
                          /\ ns[f].st \in {"live", "ended"} <=> js[f].st \in {"live", "ended"}
                          /\ ns[f].st = "live" <=> /\ js[f].st = "live"
                                                   /\ ~\E u \in U : f \in Family(js, u)
  BY EndsFields
<1> HIDE DEF ns
<1>2. NumbersRise(ns)
  BY <1>1 DEF Families, NumbersRise
<1>3. ParentsLive(ns)
  <2> SUFFICES ASSUME NEW f \in Flows, ns[f].st = "live", ns[f].parent # 0
               PROVE  ns[f].parent \in Flows /\ ns[ns[f].parent].st = "live"
    BY DEF ParentsLive
  <2>1. /\ js[f].st = "live" /\ js[f].parent # 0 /\ ns[f].parent = js[f].parent
        /\ js[f].parent \in Flows /\ js[js[f].parent].st = "live"
    BY <1>1 DEF Families, ParentsLive
  <2>2. ASSUME NEW u \in U, js[f].parent \in Family(js, u) PROVE FALSE
    BY <1>1, <2>2, FamilyIs
  <2>. QED  BY <1>1, <2>1, <2>2
<1>4. WaitsOwn(ns)
  BY <1>1 DEF Families, WaitsOwn
<1>5. Apart(ns)
  BY <1>1 DEF Families, Apart
<1>6. \A f \in Flows : ns[f].st = "live" => js[f].st = "live" /\ f \notin U
  BY <1>1, FamilyIs
<1>. QED  BY <1>1, <1>2, <1>3, <1>4, <1>5, <1>6 DEF Families, ns

(* cleanup() takes the ended flows away.                                   *)
LEMMA CleanedKeeps ==
  ASSUME NEW js, Typed(js), Families(js)
  PROVE  /\ Families(Cleaned(js)) /\ Typed(Cleaned(js))
         /\ \A f \in Flows : /\ Cleaned(js)[f].st = "unborn" <=> js[f].st = "unborn"
                             /\ js[f].st # "ended" => Cleaned(js)[f] = js[f]
                             /\ Cleaned(js)[f].st # "ended"
<1> DEFINE ns == Cleaned(js)
<1>1. Gone \in FlowRecord /\ Gone.st = "gone"
  BY GoneIs DEF FlowSound
<1>2. /\ Typed(ns)
      /\ \A f \in Flows : /\ js[f].st = "ended" => ns[f].st = "gone"
                          /\ js[f].st # "ended" => ns[f] = js[f]
  BY <1>1 DEF Cleaned, Typed
<1> HIDE DEF ns
<1>3. NumbersRise(ns) /\ ParentsLive(ns) /\ Apart(ns)
  BY <1>2 DEF Families, NumbersRise, ParentsLive, Apart
<1>4. WaitsOwn(ns)
  BY <1>2 DEF Families, WaitsOwn
<1>. QED  BY <1>2, <1>3, <1>4 DEF Families, ns

(* A flow starts beside running ones it may run beside.                    *)
LEMMA StartedKeeps ==
  ASSUME NEW js, Typed(js), Families(js), \E g \in Flows : js[g].st = "unborn",
         NEW n \in FlowRecord, n.st = "live", n.waits = 0,
         n.parent # 0 => n.parent \in Flows /\ js[n.parent].st = "live",
         \A g \in Flows : js[g].st = "live" =>
             /\ n.parent = 0 /\ js[g].parent = 0 => ~Conflict(n.rule, js[g].rule)
             /\ ~n.branch /\ ~js[g].branch => n.rule # js[g].rule,
         NEW f, f = Least({g \in Flows : js[g].st = "unborn"})
  PROVE  /\ Families(Started(js, n)) /\ Typed(Started(js, n))
         /\ f \in Flows /\ Started(js, n) = [js EXCEPT ![f] = n]
         /\ \A g \in Flows : js[g].st = "live" => g < f
<1> DEFINE ns == [js EXCEPT ![f] = n]
<1>1. f \in Flows /\ js[f].st = "unborn" /\ \A g \in Flows : js[g].st = "unborn" => f <= g
  <2> DEFINE S == {g \in Flows : js[g].st = "unborn"}
  <2>1. S # {} /\ S \subseteq Flows
    OBVIOUS
  <2>2. Least(S) \in S /\ \A g \in S : Least(S) <= g
    BY <2>1, LeastIn
  <2>. QED  BY <2>2
<1>2. Started(js, n) = ns
  BY DEF Started
<1>3. Typed(ns) /\ ns[f] = n /\ \A g \in Flows : g # f => ns[g] = js[g]
  BY <1>1 DEF Typed
<1> HIDE DEF ns
<1>4. NumbersRise(ns)
  <2> SUFFICES ASSUME NEW h \in Flows, NEW g \in Flows, ns[h].st = "unborn",
                      ns[g].st \in {"live", "ended"}
               PROVE  g < h
    BY DEF NumbersRise
  <2>1. h # f /\ js[h].st = "unborn"
    BY <1>3
  <2>2. CASE g = f
    BY <1>1, <2>1, <2>2, FlowsAreNat
  <2>3. CASE g # f
    BY <1>3, <2>1, <2>3 DEF Families, NumbersRise
  <2>. QED  BY <2>2, <2>3
<1>5. ParentsLive(ns)
  <2> SUFFICES ASSUME NEW g \in Flows, ns[g].st = "live", ns[g].parent # 0
               PROVE  ns[g].parent \in Flows /\ ns[ns[g].parent].st = "live"
    BY DEF ParentsLive
  <2>1. ns[g].parent \in Flows /\ js[ns[g].parent].st = "live"
    <3>1. CASE g = f
      BY <1>3, <3>1
    <3>2. CASE g # f
      BY <1>3, <3>2 DEF Families, ParentsLive
    <3>. QED  BY <3>1, <3>2
  <2>2. ns[g].parent # f
    BY <1>1, <2>1
  <2>. QED  BY <1>3, <2>1, <2>2
<1>6. WaitsOwn(ns)
  <2> SUFFICES ASSUME NEW g \in Flows, NEW h \in Flows, ns[g].st = "live", ns[g].waits = h
               PROVE  ns[h].st # "unborn" /\ (ns[h].st = "live" => g < h /\ ns[h].parent = g)
    BY DEF WaitsOwn
  <2>1. g # f
    BY <1>3, FlowsAreNat
  <2>2. js[g].st = "live" /\ js[g].waits = h
    BY <1>3, <2>1
  <2>3. js[h].st # "unborn" /\ (js[h].st = "live" => g < h /\ js[h].parent = g)
    BY <2>2 DEF Families, WaitsOwn
  <2>4. h # f
    BY <1>1, <2>3
  <2>. QED  BY <1>3, <2>3, <2>4
<1>7. Apart(ns)
  <2> SUFFICES ASSUME NEW g \in Flows, NEW h \in Flows, g # h, ns[g].st = "live", ns[h].st = "live"
               PROVE  /\ ns[g].parent = 0 /\ ns[h].parent = 0
                           => ~Conflict(ns[g].rule, ns[h].rule)
                      /\ ~ns[g].branch /\ ~ns[h].branch => ns[g].rule # ns[h].rule
    BY DEF Apart
  <2>1. CASE g = f
    BY <1>3, <2>1
  <2>2. CASE h = f
    <3>1. Conflict(ns[g].rule, n.rule) => Conflict(n.rule, ns[g].rule)
      BY DEF Conflict
    <3>. QED  BY <1>3, <2>2, <3>1
  <2>3. CASE g # f /\ h # f
    BY <1>3, <2>3 DEF Families, Apart
  <2>. QED  BY <2>1, <2>2, <2>3
<1>8. ASSUME NEW g \in Flows, js[g].st = "live"
      PROVE  g < f
  <2>1. js[g].st \in {"live", "ended"}
    BY <1>8
  <2>. QED  BY <1>1, <2>1 DEF Families, NumbersRise
<1>9. Families(ns)
  BY <1>4, <1>5, <1>6, <1>7 DEF Families
<1>. QED  BY <1>1, <1>2, <1>3, <1>8, <1>9 DEF ns

IsNew(n, r, parent, branch) ==
    /\ n \in FlowRecord /\ n.st = "live" /\ n.waits = 0
    /\ n.rule = r /\ n.parent = parent /\ n.branch = branch

LEMMA BornRecord ==
  ASSUME NEW r \in Rules, NEW parent \in 0..MaxFlows, NEW branch \in BOOLEAN,
         NEW manual \in BOOLEAN
  PROVE  IsNew(Born(r, parent, branch, manual), r, parent, branch)
<1>1. LET n == Born(r, parent, branch, manual) IN
      /\ FlowSound(n, acquired) /\ n.st = "live" /\ n.waits = 0
      /\ n.rule = r /\ n.parent = parent /\ n.branch = branch
  BY BornIs
<1>. QED  BY <1>1 DEF FlowSound, IsNew

-----------------------------------------------------------------------------
(* The actions.                                                            *)
LEMMA StartFamilies ==
  ASSUME IInv, Families(job), NEW r \in Configured, NEW manual \in BOOLEAN, StartRule(r, manual)
  PROVE  Families(job')
<1> DEFINE es  == Ends(job, Victims(r))
           cs  == Cleaned(es)
           new == Born(r, 0, FALSE, manual)
           f   == Least({g \in Flows : cs[g].st = "unborn"})
<1>1. job' = Started(cs, new) /\ HasRoom(job) /\ Blockers(r) = {}
  BY DEF StartRule
<1>2. Typed(job) /\ Victims(r) \subseteq Flows /\ Live(job) \subseteq Flows
  BY DEF IInv, Sound, Typed, Victims, Live
<1>3. /\ Families(es) /\ Typed(es)
      /\ \A g \in Flows : /\ es[g].rule = job[g].rule
                          /\ es[g].st = "unborn" <=> job[g].st = "unborn"
                          /\ es[g].st = "live" => job[g].st = "live" /\ g \notin Victims(r)
  BY <1>2, EndsKeeps, EndsFields
<1> HIDE DEF es
<1>4. /\ Families(cs) /\ Typed(cs)
      /\ \A g \in Flows : /\ cs[g].st = "unborn" <=> es[g].st = "unborn"
                          /\ es[g].st # "ended" => cs[g] = es[g]
                          /\ es[g].st = "ended" => cs[g].st = "gone"
  <2>1. \A g \in Flows : es[g].st = "ended" => cs[g].st = "gone"
    BY GoneIs DEF Cleaned
  <2>. QED  BY <1>3, <2>1, CleanedKeeps
<1> HIDE DEF cs
<1>5. ASSUME NEW g \in Flows, cs[g].st = "live"
      PROVE  ~Conflict(r, cs[g].rule) /\ r # cs[g].rule
  <2>1. g \in Live(job) /\ g \notin Victims(r) /\ cs[g].rule = job[g].rule
    BY <1>3, <1>4, <1>5 DEF Live
  <2>2. ~Conflict(r, job[g].rule)
    BY <2>1 DEF Victims
  <2>3. g \notin Blockers(r)
    BY <1>1
  <2>. QED  BY <2>1, <2>2, <2>3 DEF Blockers
<1>6. /\ new \in FlowRecord /\ new.st = "live" /\ new.waits = 0 /\ new.rule = r /\ new.parent = 0
  <2>1. r \in Rules /\ 0 \in 0..MaxFlows
    BY RulesAssumption, BoundsAssumption DEF IInv, Configured, RuleOf
  <2>2. IsNew(new, r, 0, FALSE)
    BY <2>1, BornRecord
  <2>. QED  BY <2>2 DEF IsNew
<1>7. \E g \in Flows : cs[g].st = "unborn"
  BY <1>1, <1>3, <1>4 DEF HasRoom
<1>8. f = Least({g \in Flows : cs[g].st = "unborn"})
  OBVIOUS
<1> HIDE DEF new, f
<1>9. Families(Started(cs, new))
  BY <1>4, <1>5, <1>6, <1>7, <1>8, StartedKeeps
<1>. QED  BY <1>1, <1>9

LEMMA SpawnFamilies ==
  ASSUME IInv, Families(job), Head \in Flows, job[Head].st = "live", HasRoom(job),
         NEW r \in Rules, NEW branch \in BOOLEAN, NEW wait \in BOOLEAN,
         branch \/ \A f \in Live(job) : job[f].rule # r,
         Spawn(Born(r, Head, branch, TRUE), wait)
  PROVE  Families(job')
<1> DEFINE new == Born(r, Head, branch, TRUE)
           cs  == Cleaned(job)
           f   == Least({g \in Flows : job[g].st = "unborn"})
           ss  == Started(cs, new)
           w   == IF wait THEN f ELSE 0
           js  == [ss EXCEPT ![Head].waits = w]
<1>1. Proceed(js)
  BY DEF Spawn
<1>2. Typed(job) /\ Head \in 0..MaxFlows
  BY BoundsAssumption DEF IInv, Sound, Typed, Flows
<1>3. /\ Families(cs) /\ Typed(cs)
      /\ \A g \in Flows : /\ cs[g].st = "unborn" <=> job[g].st = "unborn"
                          /\ job[g].st # "ended" => cs[g] = job[g]
                          /\ cs[g].st # "ended"
                          /\ cs[g].st = "live" => job[g].st = "live"
  <2>1. \A g \in Flows : job[g].st = "ended" => cs[g].st = "gone"
    BY GoneIs DEF Cleaned
  <2>2. /\ Families(cs) /\ Typed(cs)
        /\ \A g \in Flows : /\ cs[g].st = "unborn" <=> job[g].st = "unborn"
                            /\ job[g].st # "ended" => cs[g] = job[g]
                            /\ cs[g].st # "ended"
    BY <1>2, CleanedKeeps
  <2>. QED  BY <2>1, <2>2
<1>4. f = Least({g \in Flows : cs[g].st = "unborn"}) /\ \E g \in Flows : cs[g].st = "unborn"
  <2>1. {g \in Flows : cs[g].st = "unborn"} = {g \in Flows : job[g].st = "unborn"}
    BY <1>3
  <2>. QED  BY <1>3, <2>1 DEF HasRoom
<1>5. /\ new \in FlowRecord /\ new.st = "live" /\ new.waits = 0 /\ new.rule = r
      /\ new.parent = Head /\ new.branch = branch
  <2>1. IsNew(new, r, Head, branch)
    BY <1>2, BornRecord
  <2>. QED  BY <2>1 DEF IsNew
<1> HIDE DEF new, cs, f
<1>6. Head # 0 /\ cs[Head] = job[Head] /\ cs[Head].st = "live"
  BY <1>3, FlowsAreNat
<1>7. \A g \in Flows : cs[g].st = "live" => new.branch \/ new.rule # cs[g].rule
  BY <1>3, <1>5 DEF Live
<1>8. /\ Families(ss) /\ Typed(ss) /\ f \in Flows /\ ss = [cs EXCEPT ![f] = new]
      /\ Head < f
  BY <1>3, <1>4, <1>5, <1>6, <1>7, StartedKeeps
<1>9. ss[f] = new /\ w \in 0..MaxFlows /\ Head # f
  <2>1. f \in 0..MaxFlows /\ 0 \in 0..MaxFlows
    BY <1>8, BoundsAssumption DEF Flows
  <2>. QED  BY <1>3, <1>8, <2>1, FlowsAreNat DEF Typed
<1> HIDE DEF ss, w
<1>10. /\ Typed(js) /\ js[Head].waits = w
       /\ \A g \in Flows : /\ js[g].st = ss[g].st /\ js[g].rule = ss[g].rule
                           /\ js[g].branch = ss[g].branch /\ js[g].parent = ss[g].parent
                           /\ g # Head => js[g].waits = ss[g].waits
  BY <1>8, <1>9 DEF Typed, FlowRecord
<1> HIDE DEF js
<1>11. NumbersRise(js) /\ ParentsLive(js) /\ Apart(js)
  BY <1>8, <1>10 DEF Families, NumbersRise, ParentsLive, Apart
<1>12. WaitsOwn(js)
  <2> SUFFICES ASSUME NEW h \in Flows, NEW g \in Flows, js[h].st = "live", js[h].waits = g
               PROVE  js[g].st # "unborn" /\ (js[g].st = "live" => h < g /\ js[g].parent = h)
    BY DEF WaitsOwn
  <2>1. CASE h = Head
    <3>1. g = f
      BY <1>10, <2>1, FlowsAreNat DEF w
    <3>. QED  BY <1>5, <1>8, <1>9, <1>10, <2>1, <3>1
  <2>2. CASE h # Head
    BY <1>8, <1>10, <2>2 DEF Families, WaitsOwn
  <2>. QED  BY <2>1, <2>2
<1>13. Quiet(js, job')
  BY <1>1, <1>10, QuietProceed
<1>. QED  BY <1>11, <1>12, <1>13, QuietKeeps DEF Families

LEMMA Continues ==
  ASSUME Families(job), Head \in Flows, NEW js, Typed(js), Quiet(job, js)
  PROVE  /\ Families(Ends(js, {Head}))
         /\ Fail(js) \/ Proceed(js) => Families(job')
<1>1. Families(js)
  BY QuietKeeps
<1>2. Families(Ends(js, {Head}))
  BY <1>1, EndsKeeps
<1>3. Proceed(js) => Families(job')
  BY <1>1, QuietProceed, QuietKeeps
<1>. QED  BY <1>2, <1>3 DEF Fail

LEMMA TurnIs ==
  ASSUME IInv
  PROVE  /\ Typed(job)
         /\ phase = "run" /\ todo # {} => Head \in Flows
BY InTurn DEF IInv, Sound, Typed

LEMMA TypedWith ==
  ASSUME NEW js, Typed(js), NEW h \in Flows, NEW b \in BOOLEAN, NEW ks \in SUBSET Keys
  PROVE  /\ Typed([js EXCEPT ![h].async = b]) /\ Typed([js EXCEPT ![h].held = ks])
         /\ Typed([js EXCEPT ![h].pulse = ks])
<1>1. js[h] \in FlowRecord
  BY DEF Typed
<1>2. /\ [js[h] EXCEPT !.async = b] \in FlowRecord /\ [js[h] EXCEPT !.held = ks] \in FlowRecord
      /\ [js[h] EXCEPT !.pulse = ks] \in FlowRecord
  BY <1>1 DEF FlowRecord
<1>. QED  BY <1>2 DEF Typed

LEMMA TypedWithout ==
  ASSUME NEW js, Typed(js), NEW give
  PROVE  Typed(Without(js, give))
<1>1. ASSUME NEW f \in Flows
      PROVE  [js[f] EXCEPT !.held = @ \ give[f], !.pulse = @ \ give[f]] \in FlowRecord
  BY DEF Typed, FlowRecord
<1>. QED  BY <1>1 DEF Typed, Without

LEMMA VisitFamilies ==
  ASSUME IInv, Families(job),
         \/ SkipEnded \/ CancelFlow \/ AwaitOperation \/ NotDue \/ EnterSteps \/ OutOfTurn
  PROVE  Families(job')
<1>1. Typed(job) /\ Head \in Flows
  BY TurnIs DEF SkipEnded, CancelFlow, AwaitOperation, NotDue, EnterSteps, OutOfTurn, Fetching,
     Active, AtHead
<1>2. /\ Quiet(job, job) /\ Quiet(job, [job EXCEPT ![Head].async = FALSE])
      /\ Quiet(job, [job EXCEPT ![Head].waits = 0])
      /\ Typed([job EXCEPT ![Head].async = FALSE])
  <2>1. {} \in SUBSET Keys /\ FALSE \in BOOLEAN
    OBVIOUS
  <2>. QED  BY <1>1, <2>1, QuietOne, TypedWith
<1>3. /\ Families([job EXCEPT ![Head].async = FALSE])
      /\ Families([job EXCEPT ![Head].waits = 0])
      /\ Families(Ends(job, {Head}))
      /\ Families(Ends([job EXCEPT ![Head].async = FALSE], {Head}))
  BY <1>1, <1>2, QuietKeeps, Continues
<1>4. CASE SkipEnded \/ OutOfTurn
  BY <1>4 DEF SkipEnded, OutOfTurn, flowVars
<1>5. CASE CancelFlow
  BY <1>3, <1>5 DEF CancelFlow
<1>6. CASE AwaitOperation
  BY <1>3, <1>6 DEF AwaitOperation
<1>7. CASE NotDue \/ EnterSteps
  BY <1>3, <1>7 DEF NotDue, EnterSteps
<1>. QED  BY <1>4, <1>5, <1>6, <1>7

LEMMA LettingGoFamilies ==
  ASSUME IInv, Families(job), ReleasePulse \/ ReachEnd
  PROVE  Families(job')
<1>1. Typed(job) /\ Head \in Flows
  BY TurnIs DEF ReleasePulse, ReachEnd, Fetching, Active, AtHead
<1>2. Quiet(job, job)
  BY DEF Quiet
<1>3. ASSUME NEW give
      PROVE  Families(Without(job, give)) /\ Families(Ends(Without(job, give), {Head}))
  BY <1>1, QuietWithout, TypedWithout, QuietKeeps, Continues
<1>4. Families(Ends(job, {Head}))
  BY <1>1, <1>2, Continues
<1>5. CASE ReleasePulse
  BY <1>3, <1>5 DEF ReleasePulse
<1>6. CASE ReachEnd
  BY <1>3, <1>4, <1>6 DEF ReachEnd
<1>. QED  BY <1>5, <1>6

LEMMA FetchFamilies ==
  ASSUME IInv, Families(job), NEW s, Fetch(s)
  PROVE  Families(job')
<1>1. Typed(job) /\ Head \in Flows
  BY TurnIs DEF Fetch, Fetching, Active, AtHead
<1>2. /\ Quiet(job, job) /\ Quiet(job, [job EXCEPT ![Head].owns = TRUE])
      /\ Quiet(job, [job EXCEPT ![Head].owns = @ \/ Exclusive(s)])
  <2>1. \A v : Quiet(job, [job EXCEPT ![Head].owns = v])
    BY <1>1, QuietOne
  <2>2. Quiet(job, job)
    BY DEF Quiet
  <2>. QED  BY <2>1, <2>2
<1>3. /\ Families(Ends(job, {Head})) /\ Families([job EXCEPT ![Head].owns = TRUE])
      /\ Families([job EXCEPT ![Head].owns = @ \/ Exclusive(s)])
  BY <1>1, <1>2, QuietKeeps, Continues
<1>. QED  BY <1>3 DEF Fetch, Acquire

LEMMA PlainFamilies ==
  ASSUME IInv, Families(job), PerformPlain \/ PerformSystem
  PROVE  Families(job')
<1>1. Typed(job) /\ Head \in Flows
  BY TurnIs DEF PerformPlain, PerformSystem, Performing, Active, AtHead
<1>2. /\ Quiet(job, job) /\ Quiet(job, [job EXCEPT ![Head].async = TRUE])
      /\ Typed([job EXCEPT ![Head].async = TRUE])
  <2>1. {} \in SUBSET Keys /\ TRUE \in BOOLEAN
    OBVIOUS
  <2>. QED  BY <1>1, <2>1, QuietOne, TypedWith
<1>3. Fail(job) \/ Proceed(job) \/ Proceed([job EXCEPT ![Head].async = TRUE]) => Families(job')
  BY <1>1, <1>2, Continues
<1>. QED  BY <1>3 DEF PerformPlain, PerformSystem

LEMMA KeysFamilies ==
  ASSUME IInv, Families(job), PerformDown \/ PerformUp \/ PerformPress
  PROVE  Families(job')
<1>1. Typed(job) /\ Head \in Flows /\ doing \in Steps
  BY TurnIs DEF PerformDown, PerformUp, PerformPress, Performing, Active, AtHead, IInv, TickTypes
<1>2. doing.keys \subseteq Keys /\ job[Head].held \subseteq Keys
  BY <1>1 DEF Steps, Typed, FlowRecord
<1>3. ASSUME NEW tried \in SUBSET doing.keys
      PROVE  LET js == [job EXCEPT ![Head].held = @ \cup tried] IN
             /\ Fail(js) \/ Proceed(js) => Families(job')
             /\ Proceed([js EXCEPT ![Head].pulse = doing.keys]) => Families(job')
  <2> DEFINE js == [job EXCEPT ![Head].held = job[Head].held \cup tried]
             ps == [js EXCEPT ![Head].pulse = doing.keys]
  <2>1. job[Head].held \cup tried \in SUBSET Keys /\ doing.keys \in SUBSET Keys /\ TRUE \in BOOLEAN
    BY <1>2
  <2>2. Typed(js) /\ Quiet(job, js)
    BY <1>1, <2>1, TypedWith, QuietOne
  <2> HIDE DEF js
  <2>3. Typed(ps) /\ Quiet(js, ps)
    BY <1>1, <2>1, <2>2, TypedWith, QuietOne
  <2> HIDE DEF ps
  <2>4. /\ Fail(js) \/ Proceed(js) => Families(job')
        /\ Proceed(ps) => Families(job')
    BY <1>1, <2>2, <2>3, QuietTwice, Continues
  <2>. QED  BY <2>4 DEF js, ps
<1>4. ASSUME NEW give
      PROVE  Fail(Without(job, give)) \/ Proceed(Without(job, give)) => Families(job')
  BY <1>1, QuietWithout, TypedWithout, Continues
<1>5. Fail(job) => Families(job')
  BY <1>1, Continues DEF Quiet
<1>6. CASE PerformDown
  BY <1>3, <1>6 DEF PerformDown
<1>7. CASE PerformUp
  BY <1>4, <1>7 DEF PerformUp
<1>8. CASE PerformPress
  BY <1>3, <1>5, <1>8 DEF PerformPress
<1>. QED  BY <1>6, <1>7, <1>8

LEMMA StartingFamilies ==
  ASSUME IInv, Families(job), PerformParallel \/ PerformCall
  PROVE  Families(job')
<1>1. Typed(job) /\ Head \in Flows /\ job[Head].st = "live" /\ doing \in Steps
  BY TurnIs DEF PerformParallel, PerformCall, Performing, Active, AtHead, IInv, TickTypes
<1>2. Fail(job) => Families(job')
  BY <1>1, Continues DEF Quiet
<1>3. /\ job[Head].rule \in Rules /\ doing.rule \in Rules /\ doing.wait \in BOOLEAN
      /\ TRUE \in BOOLEAN /\ FALSE \in BOOLEAN
  BY <1>1 DEF Typed, FlowRecord, Steps
<1>4. HasRoom(job) /\ Spawn(Born(job[Head].rule, Head, TRUE, TRUE), FALSE) => Families(job')
  BY <1>1, <1>3, SpawnFamilies
<1>5. HasRoom(job) /\ CallAllowed(doing.rule)
        /\ Spawn(Born(doing.rule, Head, FALSE, TRUE), doing.wait) => Families(job')
  BY <1>1, <1>3, SpawnFamilies DEF CallAllowed
<1>6. CASE PerformParallel
  BY <1>2, <1>4, <1>6 DEF PerformParallel
<1>7. CASE PerformCall
  BY <1>2, <1>5, <1>7 DEF PerformCall
<1>. QED  BY <1>6, <1>7

(* disable, enable and pause of all flows of a rule.                       *)
Marked(js, F, p) == [f \in Flows |-> IF f \in F THEN [js[f] EXCEPT !.paused = p] ELSE js[f]]

LEMMA MarkedIs ==
  ASSUME NEW js, Typed(js), NEW F, NEW p \in BOOLEAN
  PROVE  Typed(Marked(js, F, p)) /\ Quiet(js, Marked(js, F, p))
<1>1. ASSUME NEW f \in Flows
      PROVE  [js[f] EXCEPT !.paused = p] \in FlowRecord
  BY DEF Typed, FlowRecord
<1>2. Typed(Marked(js, F, p))
  BY <1>1 DEF Typed, Marked
<1>3. Quiet(js, Marked(js, F, p))
  BY DEF Quiet, Marked, Typed, FlowRecord
<1>. QED  BY <1>2, <1>3

LEMMA RuleFamilies ==
  ASSUME IInv, Families(job), PerformDisable \/ PerformEnable \/ PerformPause
  PROVE  Families(job')
<1>1. Typed(job) /\ Head \in Flows
  BY TurnIs DEF PerformDisable, PerformEnable, PerformPause, Performing, Active, AtHead
<1> DEFINE F == OfRule(doing.rule)
           ws == Without(job, HeldBy(job, F))
<1>2. CASE PerformDisable
  <2>1. F \subseteq Flows
    BY DEF OfRule, Present, Live, Ended
  <2>2. Families(Ends(job, F)) /\ Typed(Ends(job, F))
    BY <1>1, <2>1, EndsKeeps
  <2>3. Proceed(Ends(job, F))
    BY <1>2 DEF PerformDisable
  <2>. QED  BY <1>1, <2>2, <2>3, QuietProceed, QuietKeeps
<1>3. CASE PerformEnable
  <2>1. Typed(Marked(job, F, FALSE)) /\ Quiet(job, Marked(job, F, FALSE))
    BY <1>1, MarkedIs
  <2>2. Proceed(Marked(job, F, FALSE))
    BY <1>3 DEF PerformEnable, Marked
  <2>. QED  BY <1>1, <2>1, <2>2, Continues
<1>4. CASE PerformPause
  <2>1. Typed(ws) /\ Quiet(job, ws)
    BY <1>1, TypedWithout, QuietWithout
  <2>2. Proceed(Marked(ws, F, TRUE))
    BY <1>4 DEF PerformPause, Marked
  <2> HIDE DEF ws
  <2>3. Typed(Marked(ws, F, TRUE)) /\ Quiet(job, Marked(ws, F, TRUE))
    BY <2>1, MarkedIs, QuietTwice
  <2>. QED  BY <1>1, <2>2, <2>3, Continues
<1>. QED  BY <1>2, <1>3, <1>4

LEMMA EngineFamilies ==
  ASSUME IInv, Families(job)
  PROVE  /\ EndTick => Families(job')
         /\ BeginTick \/ BeginRun \/ ResumeDevices \/ EndFlash => Families(job')
         /\ (\E k \in Keys : BeginFlash(k)) => Families(job')
         /\ \A r \in Configured, manual \in BOOLEAN : Retrigger(r, manual) => Families(job')
         /\ StopAll \/ StopKey \/ Configure \/ PauseDevices => Families(job')
<1>1. Typed(job) /\ Flows \subseteq Flows
  BY TurnIs
<1>2. EndTick => Families(job')
  BY <1>1, CleanedKeeps DEF EndTick
<1>3. BeginTick \/ BeginRun \/ ResumeDevices \/ EndFlash => Families(job')
  BY DEF BeginTick, BeginRun, ResumeDevices, EndFlash, flowVars
<1>4. (\E k \in Keys : BeginFlash(k)) => Families(job')
  BY DEF BeginFlash, flowVars
<1>5. ASSUME NEW r \in Configured, NEW manual \in BOOLEAN, Retrigger(r, manual)
      PROVE  Families(job')
  <2> DEFINE f == Least(Blockers(r))
  <2>1. Blockers(r) # {} /\ (job' = Ends(job, {f}) \/ job' = [job EXCEPT ![f].paused = FALSE])
    BY <1>5 DEF Retrigger
  <2>2. f \in Flows
    <3>1. Blockers(r) \subseteq Flows
      BY DEF Blockers, Live
    <3>. QED  BY <2>1, <3>1, LeastIn
  <2> HIDE DEF f
  <2>3. Families(Ends(job, {f}))
    BY <1>1, <2>2, EndsKeeps
  <2>4. Families([job EXCEPT ![f].paused = FALSE])
    BY <1>1, <2>2, QuietOne, QuietKeeps
  <2>. QED  BY <2>1, <2>3, <2>4
<1>6. Families(Cleaned(Ends(job, Flows)))
  BY <1>1, EndsKeeps, CleanedKeeps
<1>7. StopAll \/ StopKey \/ Configure \/ PauseDevices => Families(job')
  BY <1>6 DEF StopAll, StopKey, Configure, PauseDevices, Finish, FinishAll
<1>. QED  BY <1>2, <1>3, <1>4, <1>5, <1>7

-----------------------------------------------------------------------------
LEMMA NextFamilies == IInv /\ Families(job) /\ [Next]_vars => Families(job)'
<1> SUFFICES ASSUME IInv, Families(job), [Next]_vars PROVE Families(job)'
  OBVIOUS
<1>1. Families(job') /\ config' = config
  <2>1. CASE UNCHANGED vars
    BY <2>1 DEF vars, flowVars
  <2>2. CASE TickStep
    <3>1. VisitStep => Families(job')
      BY VisitFamilies, LettingGoFamilies, FetchFamilies, PlainFamilies, KeysFamilies,
         StartingFamilies, RuleFamilies DEF VisitStep
    <3>. QED  BY <2>2, <3>1, EngineFamilies DEF TickStep
  <2>3. CASE EngineStep
    BY <2>3, StartFamilies, EngineFamilies DEF EngineStep
  <2>. QED  BY <2>1, <2>2, <2>3 DEF Next
<1>. QED  BY <1>1 DEF Families, NumbersRise, ParentsLive, WaitsOwn, Apart, Conflict, RuleOf

LEMMA InitFamilies == Init => Families(job)
<1> SUFFICES ASSUME Init PROVE Families(job)
  OBVIOUS
<1>1. \A f \in Flows : job[f].st \in {"unborn", "gone"}
  BY UnbornIs, GoneIs DEF Init
<1>. QED  BY <1>1 DEF Families, NumbersRise, ParentsLive, WaitsOwn, Apart

(* Flows end with the flow that started them, wait only for flows they     *)
(* started, and whatever starts them neither exclusion nor the ban on      *)
(* re-entry is broken (start() and end() of rule_executor.h).              *)
THEOREM FlowsInvHolds == Spec => []FlowsInv
<1>1. IInv /\ Families(job) => FlowsInv
  <2> SUFFICES ASSUME IInv, Families(job) PROVE FlowsInv
    OBVIOUS
  <2>1. ChildrenEndWithParent
    BY DEF Families, ParentsLive, ChildrenEndWithParent, Live
  <2>2. WaitsForOwnChild
    <3> SUFFICES ASSUME NEW f \in Flows, job[f].st = "live", job[f].waits # 0,
                        job[job[f].waits].st = "live"
                 PROVE  job[f].waits > f /\ job[job[f].waits].parent = f
      BY DEF WaitsForOwnChild, Waiting, Live
    <3>1. job[f].waits \in Flows
      BY TurnIs, BoundsAssumption DEF Typed, FlowRecord, Flows
    <3>2. f < job[f].waits /\ job[job[f].waits].parent = f
      BY <3>1 DEF Families, WaitsOwn
    <3>. QED  BY <3>1, <3>2, FlowsAreNat
  <2>3. RootsNeverConflict /\ OneFlowPerRule
    BY DEF Families, Apart, RootsNeverConflict, OneFlowPerRule, Live
  <2>. QED  BY <2>1, <2>2, <2>3 DEF FlowsInv
<1>2. Spec => []Families(job)
  BY InitFamilies, NextFamilies, AlwaysSound, PTL DEF Spec
<1>. QED  BY <1>1, <1>2, AlwaysSound, PTL
=============================================================================
