--------------------------- MODULE MacroExecutor ---------------------------
(***************************************************************************)
(* The rule executor (Apotheosis/macro/rule_executor.h) together with the  *)
(* engine that hosts it (Apotheosis/macro/macro_engine.cpp): flows of      *)
(* actions that share keys, start, call, pause and end one another, and    *)
(* the key ledger, the flash pulse and the output ownership of the engine. *)
(*                                                                         *)
(* Everything runs under the engine's mutex; a step is one operation of    *)
(* the engine or one stage of a flow's visit in a tick.  Control flow      *)
(* inside a script (loops, branches, jumps, waiting for a deadline) is     *)
(* left open: a flow in its turn executes any step of its rule, reaches    *)
(* the end, or leaves.  Simulated (dry) flows touch nothing shared and are *)
(* left out.  Numbers of flows are never reused; MaxFlows bounds them.     *)
(***************************************************************************)
EXTENDS Integers, FiniteSets

CONSTANTS Rules,      \* the rules there may be
          Configurations,   \* the rules of a user and his device, see below
          Keys,       \* keys and mouse buttons
          NoKey,      \* not a key
          NoStep,     \* not a step
          MaxFlows,   \* flows ever started, a bound of the model
          MaxJobs,    \* flows at a time (32 in the code)
          MaxDepth,   \* nesting of calls (8 in the code)
          Budget,     \* steps of a flow in one tick (8 in the code)
          MaxPauses   \* nested DevicePause objects, a bound of the model

Modes == {"once", "hold", "toggle", "sequence"}
Flows == 1..MaxFlows

Ops   == {"down", "up", "press", "move", "other", "system", "parallel",
          "call", "enable", "disable", "pause", "resume"}
(* keys, rule and wait only matter to the steps that name them.            *)
Steps == [op : Ops, keys : SUBSET Keys, rule : Rules, wait : BOOLEAN]

(* A configuration: the settings of each rule and the steps of its script, *)
(* whether commands of the device may fail, and how many flows ever start. *)
RuleSettings == [mode : Modes, parallel : BOOLEAN, mutex : Nat, preempt : BOOLEAN,
                 priority : Nat, steps : SUBSET Steps]

ASSUME RulesAssumption ==
    /\ \A c \in Configurations :
          /\ DOMAIN c.ruleOf \subseteq Rules /\ c.faulty \in BOOLEAN /\ c.flows \in Flows
          /\ \A r \in DOMAIN c.ruleOf : c.ruleOf[r] \in RuleSettings
    /\ Rules # {} /\ NoKey \notin Keys /\ NoStep \notin Steps
ASSUME BoundsAssumption ==
    /\ MaxFlows \in Nat /\ MaxJobs \in Nat /\ MaxDepth \in Nat
    /\ Budget \in Nat /\ MaxPauses \in Nat
    /\ IsFiniteSet(Keys)

VARIABLES
    config,                  \* the configuration, the same in a whole behaviour
    job,                     \* flow -> RuleExecutor::Job
    owners,                  \* owners_: how many flows hold a key
    disabled,                \* disabled_
    acquired,                \* acquired_: the executor has the output
    owned,                   \* outputOwned: the engine says so to the aim loop
    ledger,                  \* job.held of the engine: keys it reported down
    flash,                   \* key of the running flash pulse, or NoKey
    pauses,                  \* number of DevicePause objects alive
    phase, todo, visit, budget, doing,   \* where a tick is
    down,                    \* keys the device holds down (external)
    doubtful,                \* history: last command for the key failed
    dropped,                 \* history: a release was sent, not confirmed
    flashLost                \* history: its flash press failed, nothing sent since

flowVars   == <<job, owners, disabled>>
outputVars == <<acquired, owned, flash, pauses>>
deviceVars == <<ledger, down, doubtful, dropped, flashLost>>
tickVars   == <<phase, todo, visit, budget, doing>>
vars == <<config, flowVars, outputVars, deviceVars, tickVars>>

RuleOf == config.ruleOf
Configured == DOMAIN RuleOf

Unborn == [st |-> "unborn", rule |-> CHOOSE r \in Rules : TRUE, branch |-> FALSE,
           parent |-> 0, manual |-> FALSE, paused |-> FALSE, pulse |-> {},
           held |-> {}, waits |-> 0, owns |-> FALSE, async |-> FALSE]
Gone   == [Unborn EXCEPT !.st = "gone"]

Live(js)    == {f \in Flows : js[f].st = "live"}
Ended(js)   == {f \in Flows : js[f].st = "ended"}
Present(js) == Live(js) \cup Ended(js)           \* the vector jobs_
Least(S)    == CHOOSE f \in S : \A g \in S : f <= g

(* A parallel branch runs once whatever the mode of its rule.              *)
Mode(f) == IF job[f].branch THEN "once" ELSE RuleOf[job[f].rule].mode

(***************************************************************************)
(* The device.  A command that succeeds took effect; one that fails may    *)
(* have taken effect or not.                                               *)
(***************************************************************************)
Outcomes == {o \in [ok : SUBSET Keys, hit : SUBSET Keys] :
                /\ o.ok \subseteq o.hit
                /\ ~config.faulty => o.ok = Keys}

Doubt(sent, o) == (doubtful \ sent) \cup (sent \ o.ok)

(* button(key, true): a key already in the ledger is not sent again.       *)
SendDown(ks, o) ==
    LET sent == ks \ ledger IN
    /\ ledger' = ledger \cup ks
    /\ down' = down \cup (sent \cap o.hit)
    /\ doubtful' = Doubt(sent, o)
    /\ dropped' = dropped \ (sent \cap o.ok)
    /\ flashLost' = flashLost \ sent

(* button(key, false): only keys of the ledger; kept when it fails.        *)
SendUp(ks, o) ==
    LET sent == ks \cap ledger IN
    /\ ledger' = ledger \ (sent \cap o.ok)
    /\ down' = down \ (sent \cap o.hit)
    /\ doubtful' = Doubt(sent, o)
    /\ dropped' = dropped \ (sent \cap o.ok)
    /\ flashLost' = flashLost \ sent

(* A loop over keys that gives up at the first failure, in any order:      *)
(* tried are the keys it reached, failed those of them that failed.        *)
StopsAtFailure(all, tried, failed) ==
    /\ tried \subseteq all
    /\ IF failed = {} THEN tried = all ELSE Cardinality(failed) = 1

(***************************************************************************)
(* Keys shared by flows.                                                   *)
(***************************************************************************)
(* The flows let go of the keys give[f]; the last holder releases the key. *)
OwnersAfter(give) ==
    [k \in Keys |-> owners[k] - Cardinality({f \in Flows : k \in give[f]})]

(* Variants for mutation: released at every letting go, or one too late.   *)
EveryRelease(give) == {k \in Keys : \E f \in Flows : k \in give[f]}
LateRelease(give)  == {k \in Keys : owners[k] > 0 /\ OwnersAfter(give)[k] < 0}

LastReleases(give) == {k \in Keys : owners[k] > 0 /\ OwnersAfter(give)[k] <= 0}

LetGo(give, o) ==
    /\ owners' = OwnersAfter(give)
    /\ SendUp(LastReleases(give), o)

Refused(give, o) == (LastReleases(give) \cap ledger) \ o.ok

HeldBy(js, F) == [f \in Flows |-> IF f \in F THEN js[f].held ELSE {}]
Without(js, give) ==
    [f \in Flows |-> [js[f] EXCEPT !.held = @ \ give[f], !.pulse = @ \ give[f]]]

(***************************************************************************)
(* Ending flows.  end() ends the children of a flow with it, and theirs.   *)
(***************************************************************************)
(* Variant for mutation: only direct children.                             *)
Children(js, u) == {f \in Flows : f = u \/ js[f].parent = u}

Family(js, u) ==
    {f \in Flows : \A S \in SUBSET Flows :
        (u \in S /\ \A g \in Flows : js[g].parent \in S => g \in S) => f \in S}

Ends(js, U) ==
    LET all == UNION {Family(js, u) : u \in U}
    IN  [f \in Flows |-> IF f \in all /\ js[f].st = "live"
                         THEN [js[f] EXCEPT !.st = "ended"] ELSE js[f]]

(* cleanup(): ended flows let go of their keys and leave; the output goes  *)
(* back when no running flow needs it.                                     *)
Cleaned(js) == [f \in Flows |-> IF js[f].st = "ended" THEN Gone ELSE js[f]]
(* Variant for mutation: needed by nobody.                                 *)
NeverNeeded(js) == FALSE

OutputNeeded(js) == \E f \in Live(js) : js[f].owns

Cleanup(js, o) ==
    /\ LetGo(HeldBy(js, Ended(js)), o)
    /\ acquired' = (acquired /\ OutputNeeded(js))
    /\ owned' = (owned /\ (acquired => OutputNeeded(js)))

(***************************************************************************)
(* Starting flows.                                                         *)
(***************************************************************************)
Conflict(r, q) ==
    \/ ~RuleOf[r].parallel \/ ~RuleOf[q].parallel
    \/ RuleOf[r].mutex # 0 /\ RuleOf[r].mutex = RuleOf[q].mutex

MayPreempt(r, q) == RuleOf[r].preempt /\ RuleOf[r].priority > RuleOf[q].priority

Born(r, parent, branch, manual) ==
    [Unborn EXCEPT !.st = "live", !.rule = r, !.parent = parent,
                   !.branch = branch, !.manual = manual]

Started(js, new) ==
    LET f == Least({g \in Flows : js[g].st = "unborn"})
    IN  [js EXCEPT ![f] = new]

HasRoom(js) == /\ Cardinality(Present(js)) < MaxJobs
               /\ \E g \in Flows : js[g].st = "unborn"

Ancestors(js, f) == {g \in Flows : g # f /\ f \in Family(js, g)}

(* What keeps a rule from starting: its own running flow, or a running     *)
(* flow it conflicts with and may not preempt.                             *)
Blockers(r) ==
    {f \in Live(job) : \/ job[f].rule = r
                       \/ Conflict(r, job[f].rule) /\ ~MayPreempt(r, job[f].rule)}

Victims(r)  == {f \in Live(job) : Conflict(r, job[f].rule)}

(* start() of a rule by its trigger or by the user.                        *)
StartRule(r, manual) ==
    /\ phase = "poll" /\ (manual \/ r \notin disabled)
    /\ HasRoom(job) /\ Blockers(r) = {}
    /\ LET js == Ends(job, Victims(r)) IN
       \E o \in Outcomes :
         /\ Cleanup(js, o)
         /\ job' = Started(Cleaned(js), Born(r, 0, FALSE, manual))
    /\ UNCHANGED <<disabled, flash, pauses, tickVars>>

(* Triggered again while it runs: a toggle rule ends, a sequence goes on.  *)
Retrigger(r, manual) ==
    /\ phase = "poll" /\ (manual \/ r \notin disabled)
    /\ Cardinality(Present(job)) < MaxJobs /\ Blockers(r) # {}
    /\ LET f == Least(Blockers(r)) IN
       /\ job[f].rule = r
       /\ \/ RuleOf[r].mode = "toggle" /\ job' = Ends(job, {f})
          \/ RuleOf[r].mode = "sequence" /\ job' = [job EXCEPT ![f].paused = FALSE]
    /\ UNCHANGED <<owners, disabled, outputVars, deviceVars, tickVars>>

(***************************************************************************)
(* A tick: rules are polled, then the flows present are visited in order.  *)
(***************************************************************************)
BeginTick ==
    /\ phase = "idle" /\ pauses = 0
    /\ phase' = "poll"
    /\ UNCHANGED <<flowVars, outputVars, deviceVars, todo, visit, budget, doing>>

BeginRun ==
    /\ phase = "poll"
    /\ phase' = "run" /\ todo' = Present(job) /\ visit' = "enter"
    /\ UNCHANGED <<flowVars, outputVars, deviceVars, budget, doing>>

EndTick ==
    /\ phase = "run" /\ todo = {}
    /\ \E o \in Outcomes : Cleanup(job, o)
    /\ job' = Cleaned(job) /\ phase' = "idle"
    /\ UNCHANGED <<disabled, flash, pauses, todo, visit, budget, doing>>

Head == Least(todo)
AtHead(stage) == phase = "run" /\ todo # {} /\ visit = stage
Active(stage) == AtHead(stage) /\ job[Head].st = "live"

(* The visit of the head flow is over.                                     *)
Leave == /\ todo' = todo \ {Head} /\ visit' = "enter"
         /\ budget' = 0 /\ doing' = NoStep /\ UNCHANGED phase

SkipEnded ==
    /\ AtHead("enter") /\ job[Head].st # "live"
    /\ Leave /\ UNCHANGED <<flowVars, outputVars, deviceVars>>

(* Timed out, a condition or the target lost, or the trigger released.     *)
CancelFlow ==
    /\ Active("enter")
    /\ job' = Ends(job, {Head})
    /\ Leave /\ UNCHANGED <<owners, disabled, outputVars, deviceVars>>

(* A system operation handed to the interface thread: not ready, done or   *)
(* failed.                                                                 *)
AwaitOperation ==
    /\ Active("enter") /\ job[Head].async
    /\ \/ Leave /\ UNCHANGED job
       \/ job' = [job EXCEPT ![Head].async = FALSE] /\ UNCHANGED tickVars
       \/ Leave /\ job' = Ends([job EXCEPT ![Head].async = FALSE], {Head})
    /\ UNCHANGED <<owners, disabled, outputVars, deviceVars>>

Pulse(f) == [g \in Flows |-> IF g = f THEN job[f].pulse ELSE {}]

(* The keys of a click are let go when its time is over.                   *)
ReleasePulse ==
    /\ Active("enter") /\ ~job[Head].async /\ job[Head].pulse # {}
    /\ \E o \in Outcomes :
        LET give == Pulse(Head) IN
        /\ LetGo(give, o)
        /\ IF Refused(give, o) = {}
           THEN job' = Without(job, give) /\ UNCHANGED tickVars
           ELSE job' = Ends(Without(job, give), {Head}) /\ Leave
    /\ UNCHANGED <<disabled, outputVars>>

Waiting(f) == job[f].waits # 0 /\ job[job[f].waits].st = "live"

(* Waiting for a click, a called flow, a resume or a deadline.             *)
NotDue ==
    /\ Active("enter") /\ ~job[Head].async
    /\ job' = IF job[Head].pulse = {} /\ ~Waiting(Head)
              THEN [job EXCEPT ![Head].waits = 0] ELSE job
    /\ Leave /\ UNCHANGED <<owners, disabled, outputVars, deviceVars>>

EnterSteps ==
    /\ Active("enter") /\ ~job[Head].async /\ job[Head].pulse = {}
    /\ ~Waiting(Head) /\ ~job[Head].paused
    /\ job' = [job EXCEPT ![Head].waits = 0]
    /\ visit' = "steps" /\ budget' = Budget
    /\ UNCHANGED <<owners, disabled, outputVars, deviceVars, phase, todo, doing>>

(***************************************************************************)
(* One step of the head flow: fetched, with the output taken first when it *)
(* sends input, then performed.                                            *)
(***************************************************************************)
Exclusive(s) == s.op \in {"down", "up", "press", "move"}
FlashKeys == {flash} \ {NoKey}

(* acquire(): the flash pulse ends, keys left in the ledger are released   *)
(* and the aim loop hands over (ready), or the flow ends.                  *)
Acquire(s, ready, tried, o) ==
    LET sent   == FlashKeys \cup tried
        failed == tried \ o.ok
    IN  /\ StopsAtFailure(ledger, tried, failed)
        /\ ledger' = ledger \ (tried \cap o.ok)
        /\ down' = down \ (sent \cap o.hit)
        /\ doubtful' = Doubt(sent, o)
        /\ dropped' = (dropped \ (sent \cap o.ok)) \cup (FlashKeys \ o.ok)
        /\ flashLost' = flashLost \ sent
        /\ flash' = NoKey
        /\ IF ready /\ failed = {}
           THEN /\ acquired' = TRUE /\ owned' = TRUE
                /\ job' = [job EXCEPT ![Head].owns = TRUE]
                /\ doing' = s /\ budget' = budget - 1
                /\ UNCHANGED <<phase, todo, visit>>
           ELSE /\ job' = Ends(job, {Head}) /\ Leave
                /\ UNCHANGED <<acquired, owned>>

Fetching == Active("steps") /\ doing = NoStep

(* Variant for mutation: a step costs nothing.                             *)
FetchFree(s) ==
    /\ Fetching /\ budget > 0 /\ s \in RuleOf[job[Head].rule].steps
    /\ ~Exclusive(s) /\ s.op \notin {"call", "parallel"}
    /\ doing' = s
    /\ UNCHANGED <<flowVars, outputVars, deviceVars, phase, todo, visit, budget>>

Fetch(s) ==
    /\ Fetching /\ budget > 0 /\ s \in RuleOf[job[Head].rule].steps
    /\ s.op \in {"call", "parallel"} => \E f \in Flows : job[f].st = "unborn"
    /\ IF Exclusive(s) /\ ~acquired
       THEN \E ready \in BOOLEAN, tried \in SUBSET ledger, o \in Outcomes :
                Acquire(s, ready, tried, o)
       ELSE /\ job' = [job EXCEPT ![Head].owns = @ \/ Exclusive(s)]
            /\ doing' = s /\ budget' = budget - 1
            /\ UNCHANGED <<phase, todo, visit, acquired, owned, flash, deviceVars>>
    /\ UNCHANGED <<owners, disabled, pauses>>

(* The budget is spent, or the deadline of the last step lies ahead.       *)
OutOfTurn ==
    /\ Fetching
    /\ Leave /\ UNCHANGED <<flowVars, outputVars, deviceVars>>

(* The end of the script: wait for children, start over or end.            *)
ReachEnd ==
    /\ Fetching /\ budget > 0
    /\ IF \E f \in Live(job) : job[f].parent = Head
       THEN UNCHANGED <<job, owners, deviceVars>>
       ELSE IF ~job[Head].manual /\ Mode(Head) \in {"hold", "toggle"}
       THEN \E o \in Outcomes :
              LET give == HeldBy(job, {Head})
              IN  LetGo(give, o) /\ job' = Without(job, give)
       ELSE job' = Ends(job, {Head}) /\ UNCHANGED <<owners, deviceVars>>
    /\ Leave /\ UNCHANGED <<disabled, outputVars>>

(* A step succeeded; a sequence rule pauses unless it was its last step.   *)
Proceed(js) ==
    \E p \in BOOLEAN :
      /\ p => ~js[Head].manual /\ Mode(Head) = "sequence"
      /\ LET new == [js EXCEPT ![Head].paused = @ \/ p]
             j   == new[Head]
         IN  /\ job' = new
             /\ IF \/ j.st # "live" \/ j.pulse # {} \/ j.waits # 0
                   \/ j.paused \/ j.async
                THEN Leave
                ELSE doing' = NoStep /\ UNCHANGED <<phase, todo, visit, budget>>

Fail(js) == job' = Ends(js, {Head}) /\ Leave

Performing(ops) == Active("steps") /\ doing # NoStep /\ doing.op \in ops

PerformPlain ==
    /\ Performing({"other", "move"})
    /\ \/ Proceed(job)
       \/ job' = job /\ Leave      \* a condition or the rest of a move to wait for
       \/ Fail(job)
    /\ UNCHANGED <<owners, disabled, outputVars, deviceVars>>

PerformSystem ==
    /\ Performing({"system"})
    /\ Proceed([job EXCEPT ![Head].async = TRUE])
    /\ UNCHANGED <<owners, disabled, outputVars, deviceVars>>

(* hold(key, true) for the keys tried: only a key nobody holds is sent.    *)
Take(tried, o) ==
    /\ owners' = [k \in Keys |-> IF k \in tried THEN owners[k] + 1 ELSE owners[k]]
    /\ SendDown({k \in tried : owners[k] = 0}, o)

TakeFailed(tried, o) == ({k \in tried : owners[k] = 0} \ ledger) \ o.ok

PerformDown ==
    /\ Performing({"down"})
    /\ \E tried \in SUBSET doing.keys, o \in Outcomes :
        LET new == doing.keys \ job[Head].held
            js  == [job EXCEPT ![Head].held = @ \cup tried]
        IN  /\ StopsAtFailure(new, tried, TakeFailed(tried, o))
            /\ Take(tried, o)
            /\ IF TakeFailed(tried, o) = {} THEN Proceed(js) ELSE Fail(js)
    /\ UNCHANGED <<disabled, outputVars>>

PerformUp ==
    /\ Performing({"up"})
    /\ \E tried \in SUBSET doing.keys, o \in Outcomes :
        LET give == [f \in Flows |-> IF f = Head THEN tried ELSE {}]
            js   == Without(job, give)
        IN  /\ StopsAtFailure(doing.keys \cap job[Head].held, tried, Refused(give, o))
            /\ LetGo(give, o)
            /\ IF Refused(give, o) = {} THEN Proceed(js) ELSE Fail(js)
    /\ UNCHANGED <<disabled, outputVars>>

(* A click is refused when any flow holds one of its keys.                 *)
ClickAllowed(ks) == ks \cap job[Head].held = {} /\ \A k \in ks : owners[k] = 0

PerformPress ==
    /\ Performing({"press"})
    /\ IF ~ClickAllowed(doing.keys)
       THEN Fail(job) /\ UNCHANGED <<owners, deviceVars>>
       ELSE \E tried \in SUBSET doing.keys, o \in Outcomes :
              LET js == [job EXCEPT ![Head].held = @ \cup tried]
              IN  /\ StopsAtFailure(doing.keys, tried, TakeFailed(tried, o))
                  /\ Take(tried, o)
                  /\ IF TakeFailed(tried, o) = {}
                     THEN Proceed([js EXCEPT ![Head].pulse = doing.keys])
                     ELSE Fail(js)
    /\ UNCHANGED <<disabled, outputVars>>

(* start() from a flow, with its cleanup(): a branch of its own script, or *)
(* a rule it calls.                                                        *)
Spawn(new, wait) ==
    /\ \E o \in Outcomes : Cleanup(job, o)
    /\ LET js == Started(Cleaned(job), new)
           f  == Least({g \in Flows : job[g].st = "unborn"})
       IN  Proceed([js EXCEPT ![Head].waits = IF wait THEN f ELSE 0])

PerformParallel ==
    /\ Performing({"parallel"})
    /\ IF HasRoom(job)
       THEN Spawn(Born(job[Head].rule, Head, TRUE, TRUE), FALSE)
       ELSE Fail(job) /\ UNCHANGED <<owners, acquired, owned, deviceVars>>
    /\ UNCHANGED <<disabled, flash, pauses>>

(* No call of a rule that runs, and no call beyond MaxDepth.               *)
CallAllowed(q) ==
    /\ \A f \in Live(job) : job[f].rule # q
    /\ Cardinality({Head} \cup Ancestors(job, Head)) <= MaxDepth

PerformCall ==
    /\ Performing({"call"})
    /\ \/ /\ HasRoom(job) /\ CallAllowed(doing.rule)
          /\ Spawn(Born(doing.rule, Head, FALSE, TRUE), doing.wait)
       \/ Fail(job) /\ UNCHANGED <<owners, acquired, owned, deviceVars>>
    /\ UNCHANGED <<disabled, flash, pauses>>

OfRule(q) == {f \in Present(job) : job[f].rule = q}

PerformDisable ==
    /\ Performing({"disable"})
    /\ disabled' = disabled \cup {doing.rule}
    /\ Proceed(Ends(job, OfRule(doing.rule)))
    /\ UNCHANGED <<owners, outputVars, deviceVars>>

PerformEnable ==
    /\ Performing({"enable", "resume"})
    /\ disabled' = disabled \ {doing.rule}
    /\ Proceed([f \in Flows |-> IF f \in OfRule(doing.rule)
                                THEN [job[f] EXCEPT !.paused = FALSE] ELSE job[f]])
    /\ UNCHANGED <<owners, outputVars, deviceVars>>

(* Variant for mutation: the paused flow keeps its keys.                   *)
PauseOnly ==
    /\ Performing({"pause"})
    /\ disabled' = disabled \cup {doing.rule}
    /\ Proceed([f \in Flows |-> IF f \in OfRule(doing.rule)
                                THEN [job[f] EXCEPT !.paused = TRUE] ELSE job[f]])
    /\ UNCHANGED <<owners, outputVars, deviceVars>>

PerformPause ==
    /\ Performing({"pause"})
    /\ disabled' = disabled \cup {doing.rule}
    /\ LET give == HeldBy(job, OfRule(doing.rule))
           js   == Without(job, give)
       IN  /\ \E o \in Outcomes : LetGo(give, o)
           /\ Proceed([f \in Flows |-> IF f \in OfRule(doing.rule)
                                       THEN [js[f] EXCEPT !.paused = TRUE] ELSE js[f]])
    /\ UNCHANGED outputVars

(***************************************************************************)
(* The engine between ticks.                                               *)
(***************************************************************************)
(* finish(): every flow ends and lets go, what the ledger still lists is   *)
(* released once more, and the ledger is emptied whatever comes of it.     *)
FinishAll(o, o2, fk) ==
    LET give   == HeldBy(job, Flows)
        first  == LastReleases(give) \cap ledger
        again  == ledger \ (first \cap o.ok)
        unsure == (again \ o2.ok) \cup (fk \ o.ok)
        sent   == first \cup again \cup fk
    IN  /\ owners' = OwnersAfter(give)
        /\ ledger' = {}
        /\ down' = (down \ ((first \cup fk) \cap o.hit)) \ (again \cap o2.hit)
        /\ doubtful' = (doubtful \ sent) \cup unsure
        /\ dropped' = (dropped \ sent) \cup unsure
        /\ flashLost' = flashLost \ sent
        /\ job' = Cleaned(Ends(job, Flows))
        /\ acquired' = FALSE /\ owned' = FALSE

(* stopAll, shutdown and a changed configuration end the flash pulse too,  *)
(* opening the editor and the stop key do not.                             *)
Finish(withFlash) ==
    /\ phase = "idle"
    /\ \E o \in Outcomes, o2 \in Outcomes :
          FinishAll(o, o2, IF withFlash THEN FlashKeys ELSE {})
    /\ flash' = IF withFlash THEN NoKey ELSE flash
    /\ UNCHANGED <<pauses, tickVars>>

StopAll   == Finish(TRUE) /\ UNCHANGED disabled
StopKey   == Finish(FALSE) /\ UNCHANGED disabled
Configure == pauses = 0 /\ Finish(TRUE) /\ disabled' = {}

(* ~DevicePause and DevicePause: devices are being replaced.               *)
PauseDevices ==
    /\ phase = "idle" /\ pauses < MaxPauses
    /\ \E o \in Outcomes, o2 \in Outcomes : FinishAll(o, o2, FlashKeys)
    /\ flash' = NoKey /\ pauses' = pauses + 1
    /\ UNCHANGED <<disabled, tickVars>>

ResumeDevices ==
    /\ phase = "idle" /\ pauses > 0
    /\ pauses' = pauses - 1
    /\ UNCHANGED <<flowVars, acquired, owned, flash, deviceVars, tickVars>>

(* The aim loop asked for a flash pulse; its end by time or by hotkey.  A  *)
(* press that fails is forgotten: no release is sent for it, then or later.*)
BeginFlash(k) ==
    /\ phase = "idle" /\ pauses = 0
    /\ flash = NoKey /\ ~owned /\ k \notin ledger
    /\ \E o \in Outcomes :
        /\ flash' = IF k \in o.ok THEN k ELSE NoKey
        /\ down' = down \cup ({k} \cap o.hit)
        /\ doubtful' = Doubt({k}, o)
        /\ dropped' = dropped \ {k}
        /\ flashLost' = (flashLost \ {k}) \cup ({k} \ o.ok)
    /\ UNCHANGED <<flowVars, acquired, owned, pauses, ledger, tickVars>>

EndFlash ==
    /\ phase = "idle" /\ pauses = 0 /\ flash # NoKey
    /\ \E o \in Outcomes :
        /\ down' = down \ (FlashKeys \cap o.hit)
        /\ doubtful' = Doubt(FlashKeys, o)
        /\ dropped' = (dropped \ FlashKeys) \cup (FlashKeys \ o.ok)
        /\ flashLost' = flashLost \ FlashKeys
    /\ flash' = NoKey
    /\ UNCHANGED <<flowVars, acquired, owned, pauses, ledger, tickVars>>

(***************************************************************************)
Init ==
    /\ config \in Configurations
    /\ job = [f \in Flows |-> IF f <= config.flows THEN Unborn ELSE Gone]
    /\ owners = [k \in Keys |-> 0]
    /\ disabled = {} /\ acquired = FALSE /\ owned = FALSE
    /\ ledger = {} /\ flash = NoKey /\ pauses = 0
    /\ phase = "idle" /\ todo = {} /\ visit = "enter"
    /\ budget = 0 /\ doing = NoStep
    /\ down = {} /\ doubtful = {} /\ dropped = {} /\ flashLost = {}

VisitStep ==
    \/ SkipEnded \/ CancelFlow \/ AwaitOperation \/ ReleasePulse \/ NotDue
    \/ EnterSteps \/ OutOfTurn \/ ReachEnd
    \/ \E r \in Configured : \E s \in RuleOf[r].steps : Fetch(s)
    \/ PerformPlain \/ PerformSystem \/ PerformDown \/ PerformUp \/ PerformPress
    \/ PerformParallel \/ PerformCall
    \/ PerformDisable \/ PerformEnable \/ PerformPause

TickStep == (BeginRun \/ VisitStep \/ EndTick) /\ UNCHANGED config

EngineStep ==
    /\ \/ BeginTick
       \/ \E r \in Configured, manual \in BOOLEAN : StartRule(r, manual) \/ Retrigger(r, manual)
       \/ StopAll \/ StopKey \/ Configure \/ PauseDevices \/ ResumeDevices
       \/ (\E k \in Keys : BeginFlash(k)) \/ EndFlash
    /\ UNCHANGED config

Next == TickStep \/ EngineStep

Spec == Init /\ [][Next]_vars

(* A tick that has begun runs to its end: it is a loop of the engine's     *)
(* thread that waits for nothing.                                          *)
FairSpec == Spec /\ WF_vars(TickStep)

(***************************************************************************)
(* Properties.                                                             *)
(***************************************************************************)
FlowRecord ==
    [st : {"unborn", "live", "ended", "gone"}, rule : Rules, branch : BOOLEAN,
     parent : 0..MaxFlows, manual : BOOLEAN, paused : BOOLEAN,
     pulse : SUBSET Keys, held : SUBSET Keys, waits : 0..MaxFlows,
     owns : BOOLEAN, async : BOOLEAN]

(* Types; a click holds its keys and only flows that run or still wait for *)
(* their cleanup hold any.                                                 *)
TypeOK ==
    /\ job \in [Flows -> FlowRecord]
    /\ owners \in [Keys -> Nat]
    /\ disabled \subseteq Rules /\ acquired \in BOOLEAN /\ owned \in BOOLEAN
    /\ flash \in Keys \cup {NoKey} /\ pauses \in 0..MaxPauses
    /\ ledger \subseteq Keys /\ down \subseteq Keys
    /\ doubtful \subseteq Keys /\ dropped \subseteq Keys /\ flashLost \subseteq Keys
    /\ phase \in {"idle", "poll", "run"} /\ visit \in {"enter", "steps"}
    /\ todo \subseteq Flows /\ budget \in 0..Budget /\ doing \in Steps \cup {NoStep}
    /\ \A f \in Flows : /\ job[f].pulse \subseteq job[f].held
                        /\ job[f].held # {} => f \in Present(job)

(* The holder count of a key is the number of flows that hold it, whatever *)
(* way they started, paused or ended (owners_ against Job::held).          *)
OwnersMatchHolds ==
    \A k \in Keys : owners[k] = Cardinality({f \in Flows : k \in job[f].held})

(* A key is down at the device exactly while some flow or the flash pulse  *)
(* holds it, unless the last command sent for it failed.                   *)
DeviceFollowsHolders ==
    \A k \in Keys \ doubtful : k \in down <=> owners[k] > 0 \/ flash = k

(* A key that is down is known to the ledger or to the flash pulse, or a   *)
(* release was sent for it and not confirmed; the one exception is a flash *)
(* press that failed but took effect, which beginFlash forgets without a   *)
(* release (see FlashIsReleased).  button() forgets no press that failed.  *)
NothingLeftDown == down \subseteq ledger \cup FlashKeys \cup dropped \cup flashLost

(* Only a flow that owns the output holds keys; the aim loop is told so,   *)
(* and a flash pulse never runs while a macro has the output.              *)
HoldersOwnOutput ==
    /\ \A f \in Flows : job[f].held # {} => job[f].owns /\ acquired
    /\ owned = acquired
    /\ owned => flash = NoKey

(* Between ticks the aim loop is held off exactly while a running flow     *)
(* needs the output: no ended or paused-and-cancelled flow keeps it.       *)
OutputReturned ==
    phase = "idle" => (acquired <=> OutputNeeded(job))

(* A flow never outlives the flow that started it (end() and cleanup()).   *)
ChildrenEndWithParent ==
    \A f \in Live(job) : job[f].parent # 0 => job[f].parent \in Live(job)

(* Two rules started by triggers or by hand that exclude each other never  *)
(* run together, preemption and toggling included.                         *)
RootsNeverConflict ==
    \A f, g \in Live(job) :
        f # g /\ job[f].parent = 0 /\ job[g].parent = 0
          => ~Conflict(job[f].rule, job[g].rule)

(* A rule is not re-entered, neither by its trigger nor by calls.          *)
OneFlowPerRule ==
    \A f, g \in Live(job) :
        f # g /\ ~job[f].branch /\ ~job[g].branch => job[f].rule # job[g].rule

(* A flow paused by a rule action holds no key; only a sequence rule that  *)
(* waits for its next press keeps what it holds.                           *)
PausedHoldsNothing ==
    \A f \in Live(job) :
        job[f].paused /\ (job[f].manual \/ Mode(f) # "sequence")
          => job[f].held = {}

(* A flow waits only for a flow it started itself, later than itself, so   *)
(* no circle of flows waits for one another.                               *)
WaitsForOwnChild ==
    \A f \in Live(job) : Waiting(f) => /\ job[f].waits > f
                                       /\ job[job[f].waits].parent = f

(* Nobody releases a key at the device while one of its holders keeps it:  *)
(* only the last holder's release is sent.                                 *)
SharedKeyStaysDown ==
    [][\A k \in Keys : owners[k] > 0 /\ owners'[k] > 0 /\ k \in down => k \in down']_vars

(* No script keeps the engine's thread inside one tick, not even a loop    *)
(* without a delay: the step budget and the fixed list of flows end it.    *)
EveryTickEnds == phase = "run" ~> phase = "idle"

(* Types; flows, holder counts, ledger and device agree about the keys.    *)
KeysInv == TypeOK /\ OwnersMatchHolds /\ DeviceFollowsHolders /\ NothingLeftDown

(* Which flows there may be together: families end together and wait for   *)
(* their own, and neither exclusion nor the ban on re-entry is broken.     *)
FlowsInv == /\ ChildrenEndWithParent /\ WaitsForOwnChild
            /\ RootsNeverConflict /\ OneFlowPerRule

(* Who does not run keeps neither keys nor, between ticks, the output.     *)
IdleHoldsNothing == PausedHoldsNothing /\ OutputReturned

(***************************************************************************)
(* What a document or a comment says and the code does not do: TLC refutes *)
(* each of these, see the README.                                          *)
(***************************************************************************)
(* What docs/宏编排.md says of rules that exclude each other, for all flows *)
(* but those of one family: they never run at the same time.               *)
ExclusionHoldsForAll ==
    \A f, g \in Live(job) :
        f \notin Family(job, g) /\ g \notin Family(job, f)
          => ~Conflict(job[f].rule, job[g].rule)

(* What button() says of an uncertain press, for the presses of the flash  *)
(* pulse: nothing is down without the ledger or the pulse knowing it, or a *)
(* release having been sent.                                               *)
FlashIsReleased == down \subseteq ledger \cup FlashKeys \cup dropped
=============================================================================
