------------------------------ MODULE RuleFlow ------------------------------
(***************************************************************************)
(* The control flow of a rule's script: compileFlow                        *)
(* (Apotheosis/macro/rule_logic.h) pairs the blocks of a list of actions   *)
(* or rejects it, and RuleExecutor::execute (rule_executor.h) moves the    *)
(* program counter through the pairs.                                      *)
(*                                                                         *)
(* Any program of Programs may run; conditions may turn                    *)
(* out either way each time they are asked.  Actions without control flow  *)
(* are "plain"; conditions' indices are taken to be valid; "retry" and     *)
(* "foreach" are the code's Retry and ForTargets.                          *)
(***************************************************************************)
EXTENDS Integers, Sequences, FiniteSets

CONSTANTS Programs,    \* lists of actions
          MaxNesting,  \* blocks inside one another, 16 in the code
          MaxTargets   \* targets in view at most, a bound of the model

Loops    == {"loop", "while", "retry", "foreach"}
Openers  == Loops \cup {"if", "parallel", "switch"}
Closers  == {"endloop", "endif", "endparallel", "endswitch"}
Branches == {"else", "case"}
Others   == {"break", "continue", "jump", "plain"}

Acts == [op : Openers \cup Closers \cup Branches \cup Others, n : Nat]

ASSUME ProgramsAssumption ==
    /\ \A p \in Programs : p \in Seq(Acts)
    /\ MaxNesting \in Nat /\ MaxTargets \in Nat

VARIABLES program, flow,     \* the actions; FlowMap, or rejected
          pc, counters,      \* Job::pc (from 1) and Job::counters
          target, saved,     \* Job::target and, by loop, previousTarget
          targetIds,         \* by loop, how many targets were collected
          failed,            \* ended because a retry ran out
          passes, left       \* history: passes through each loop since it was
                             \* entered; the loop last left by its count
place    == <<program, flow, pc, failed>>
aimed    == <<target, saved, targetIds>>
flowVars == <<place, counters, aimed, passes, left>>

Matches(opener, closer) ==
    \/ opener \in Loops /\ closer = "endloop"
    \/ opener = "if" /\ closer = "endif"
    \/ opener = "parallel" /\ closer = "endparallel"
    \/ opener = "switch" /\ closer = "endswitch"

(***************************************************************************)
(* compileFlow, one action after the other.  0 stands for -1.              *)
(***************************************************************************)
Nothing(p) == [end |-> [i \in DOMAIN p |-> 0], begin |-> [i \in DOMAIN p |-> 0],
               otherwise |-> [i \in DOMAIN p |-> 0], stack |-> <<>>, error |-> FALSE]

Top(c)    == c.stack[Len(c.stack)]
Reject(c) == [c EXCEPT !.error = TRUE]

OpenBlock(c, i) ==
    [c EXCEPT !.stack = Append(@, i), !.error = Len(c.stack) + 1 > MaxNesting]

(* An else or a case belongs to the block that is open.                    *)
BranchOf(p, c, i) ==
    IF c.stack = <<>> THEN Reject(c)
    ELSE IF p[i].op = "else"
    THEN IF p[Top(c)].op # "if" \/ c.otherwise[Top(c)] # 0 THEN Reject(c)
         ELSE [c EXCEPT !.otherwise[Top(c)] = i, !.begin[i] = Top(c)]
    ELSE IF p[Top(c)].op # "switch" THEN Reject(c)
         ELSE [c EXCEPT !.begin[i] = Top(c)]

(* Variant for mutation: any end closes any block.                         *)
CloseAny(p, c, i) ==
    IF c.stack = <<>> THEN Reject(c)
    ELSE LET start == Top(c) IN
         [c EXCEPT !.stack = SubSeq(@, 1, Len(@) - 1), !.begin[i] = start,
                   !.end = [@ EXCEPT ![start] = i]]

CloseBlock(p, c, i) ==
    IF c.stack = <<>> \/ ~Matches(p[Top(c)].op, p[i].op) THEN Reject(c)
    ELSE LET start == Top(c) IN
         [c EXCEPT !.stack = SubSeq(@, 1, Len(@) - 1), !.begin[i] = start,
                   !.end = [j \in DOMAIN p |->
                       IF j = start \/ (start < j /\ j < i /\ c.begin[j] = start)
                       THEN i ELSE @[j]]]

(* Break and continue belong to the innermost open loop.                   *)
BindToLoop(p, c, i) ==
    LET loops == {k \in DOMAIN c.stack : p[c.stack[k]].op \in Loops} IN
    IF loops = {} THEN Reject(c)
    ELSE [c EXCEPT !.begin[i] = c.stack[CHOOSE k \in loops : \A l \in loops : l <= k]]

CompileAction(p, c, i) ==
    IF c.error THEN c
    ELSE CASE p[i].op = "jump"     -> [c EXCEPT !.error = p[i].n \notin DOMAIN p]
           [] p[i].op \in Openers  -> OpenBlock(c, i)
           [] p[i].op \in Branches -> BranchOf(p, c, i)
           [] p[i].op \in Closers  -> CloseBlock(p, c, i)
           [] p[i].op \in {"break", "continue"} -> BindToLoop(p, c, i)
           [] OTHER                -> c

compileFlow(p) ==
    LET upTo[i \in 0..Len(p)] ==
            IF i = 0 THEN Nothing(p) ELSE CompileAction(p, upTo[i - 1], i)
        last == upTo[Len(p)]
    IN  [last EXCEPT !.error = @ \/ last.stack # <<>>]

(***************************************************************************)
(* execute(): where the program counter goes.                              *)
(***************************************************************************)
None    == -1
At(op)  == ~flow.error /\ ~failed /\ pc <= Len(program) /\ program[pc].op = op
Goto(i) == pc' = i /\ UNCHANGED <<program, flow, failed>>
Same    == UNCHANGED <<counters, aimed, passes, left>>

(* Variant for mutation: the counter survives a break.                     *)
ForgetNoCount(i) ==
    /\ UNCHANGED counters /\ passes' = [passes EXCEPT ![i] = 0]
    /\ target' = IF saved[i] # None THEN saved[i] ELSE target
    /\ saved' = [saved EXCEPT ![i] = None]
    /\ targetIds' = [targetIds EXCEPT ![i] = 0]

(* The counter of loop i is erased, and what it did to the target undone.  *)
Forget(i) ==
    /\ counters' = [counters EXCEPT ![i] = 0]
    /\ passes' = [passes EXCEPT ![i] = 0]
    /\ target' = IF saved[i] # None THEN saved[i] ELSE target
    /\ saved' = [saved EXCEPT ![i] = None]
    /\ targetIds' = [targetIds EXCEPT ![i] = 0]

LeaveByCount(size) ==
    /\ left' = [loop |-> pc, passes |-> passes[pc], size |-> size]
    /\ Forget(pc) /\ Goto(flow.end[pc] + 1)

Counted == /\ counters' = [counters EXCEPT ![pc] = @ + 1]
           /\ passes' = [passes EXCEPT ![pc] = @ + 1]
           /\ Goto(pc + 1) /\ UNCHANGED left

Loop == /\ At("loop")
        /\ \/ counters[pc] >= program[pc].n /\ LeaveByCount(program[pc].n)
           \/ counters[pc] < program[pc].n /\ Counted /\ UNCHANGED aimed

(* The count of a while loop is not looked at, so it is left out.          *)
While == /\ At("while")
         /\ Goto(pc + 1) \/ Goto(flow.end[pc] + 1)
         /\ Same

Tries(a) == IF a.n = 0 THEN 1 ELSE a.n

(* Variant for mutation: the tries are not counted.                        *)
RetryForever ==
    /\ At("retry")
    /\ \/ Forget(pc) /\ Goto(flow.end[pc] + 1) /\ UNCHANGED left
       \/ Goto(pc + 1) /\ Same

(* The condition holds, or there are tries left, or the flow ends.         *)
Retry ==
    /\ At("retry")
    /\ \/ Forget(pc) /\ Goto(flow.end[pc] + 1) /\ UNCHANGED left
       \/ counters[pc] < Tries(program[pc]) /\ Counted /\ UNCHANGED aimed
       \/ /\ counters[pc] >= Tries(program[pc])
          /\ failed' = TRUE /\ UNCHANGED <<program, flow, pc>> /\ Same

(* The targets in view are collected when the loop is entered.             *)
ForTargets ==
    /\ At("foreach")
    /\ \E seen \in 0..MaxTargets :
         LET size == IF counters[pc] = 0 THEN seen ELSE targetIds[pc]
             own  == IF counters[pc] = 0 THEN target ELSE saved[pc]
         IN  \/ /\ counters[pc] >= size
                /\ left' = [loop |-> pc, passes |-> passes[pc], size |-> size]
                /\ counters' = [counters EXCEPT ![pc] = 0]
                /\ passes' = [passes EXCEPT ![pc] = 0]
                /\ target' = own /\ saved' = [saved EXCEPT ![pc] = None]
                /\ targetIds' = [targetIds EXCEPT ![pc] = 0]
                /\ Goto(flow.end[pc] + 1)
             \/ /\ counters[pc] < size /\ Counted
                /\ saved' = [saved EXCEPT ![pc] = own]
                /\ targetIds' = [targetIds EXCEPT ![pc] = size]
                /\ target' = counters[pc] + 1

EndLoop == At("endloop") /\ Goto(flow.begin[pc]) /\ Same

Break == /\ At("break") /\ Goto(flow.end[flow.begin[pc]] + 1)
         /\ Forget(flow.begin[pc]) /\ UNCHANGED left

Continue == At("continue") /\ Goto(flow.end[flow.begin[pc]]) /\ Same

If == /\ At("if")
      /\ \/ Goto(pc + 1)
         \/ Goto((IF flow.otherwise[pc] # 0 THEN flow.otherwise[pc] ELSE flow.end[pc]) + 1)
      /\ Same

(* Variant for mutation: the then-part runs on into the else-part.         *)
ElseFallsThrough == \E op \in Branches : At(op) /\ Goto(pc + 1) /\ Same

ElseOrCase == \E op \in Branches : At(op) /\ Goto(flow.end[pc] + 1) /\ Same

(* The last case of its own that fits, or none.                            *)
Switch == /\ At("switch")
          /\ \/ Goto(flow.end[pc] + 1)
             \/ \E k \in DOMAIN program :
                  flow.begin[k] = pc /\ program[k].op = "case" /\ Goto(k + 1)
          /\ Same

(* The branch becomes a flow of its own.                                   *)
Parallel == At("parallel") /\ Goto(flow.end[pc] + 1) /\ Same

Jump == At("jump") /\ (Goto(program[pc].n) \/ Goto(pc + 1)) /\ Same

Straight == /\ \E op \in {"plain", "endif", "endswitch", "endparallel"} : At(op)
            /\ Goto(pc + 1) /\ Same

(* The program of a parallel branch; its jumps are renumbered.             *)
Branch(p, i) ==
    [k \in 1..(compileFlow(p).end[i] - i - 1) |->
        IF p[i + k].op = "jump" THEN [p[i + k] EXCEPT !.n = @ - i] ELSE p[i + k]]

(***************************************************************************)
FlowInit ==
    /\ program \in Programs /\ flow = compileFlow(program)
    /\ pc = 1
    /\ counters = [i \in DOMAIN program |-> 0]
    /\ passes = [i \in DOMAIN program |-> 0]
    /\ target = 0 /\ saved = [i \in DOMAIN program |-> None]
    /\ targetIds = [i \in DOMAIN program |-> 0]
    /\ failed = FALSE /\ left = [loop |-> 0, passes |-> 0, size |-> 0]

Step == \/ Loop \/ While \/ Retry \/ ForTargets \/ EndLoop \/ Break \/ Continue \/ If \/ ElseOrCase
        \/ Switch \/ Parallel \/ Jump \/ Straight

Over == (flow.error \/ failed \/ pc > Len(program)) /\ UNCHANGED flowVars

FlowNext == Step \/ Over

FlowSpec == FlowInit /\ [][FlowNext]_flowVars
FairSpec == FlowSpec /\ WF_flowVars(Step)

(***************************************************************************)
(* Reference: blocks by nesting depth.                                     *)
(***************************************************************************)
Depth(p, i) == Cardinality({k \in 1..i : p[k].op \in Openers})
             - Cardinality({k \in 1..i : p[k].op \in Closers})

(* The end of the block opened at i: where the depth first falls below.    *)
EndsAt(p, i) == {j \in DOMAIN p : /\ j > i /\ Depth(p, j) < Depth(p, i)
                                  /\ \A k \in i..(j - 1) : Depth(p, k) >= Depth(p, i)}

Inside(p, j) == {i \in DOMAIN p : /\ p[i].op \in Openers /\ i < j
                                  /\ \A e \in EndsAt(p, i) : j < e}
Innermost(S) == CHOOSE i \in S : \A k \in S : k <= i

Legal(p) ==
    /\ \A i \in DOMAIN p : Depth(p, i) \in 0..MaxNesting
    /\ Depth(p, Len(p)) = 0
    /\ \A i \in DOMAIN p : p[i].op \in Openers =>
         /\ \A e \in EndsAt(p, i) : Matches(p[i].op, p[e].op)
         /\ Cardinality({k \in DOMAIN p : /\ p[k].op = "else" /\ i \in Inside(p, k)
                                          /\ Innermost(Inside(p, k)) = i}) <= 1
    /\ \A k \in DOMAIN p :
         /\ p[k].op \in Branches => /\ Inside(p, k) # {}
               /\ p[Innermost(Inside(p, k))].op = (IF p[k].op = "else" THEN "if" ELSE "switch")
         /\ p[k].op \in {"break", "continue"} =>
               \E i \in Inside(p, k) : p[i].op \in Loops
         /\ p[k].op = "jump" => p[k].n \in DOMAIN p

(***************************************************************************)
(* Properties.                                                             *)
(***************************************************************************)
(* The program counter stays in the program or just behind it.             *)
FlowTypeOK ==
    /\ pc \in 1..(Len(program) + 1)
    /\ target \in 0..MaxTargets /\ failed \in BOOLEAN
    /\ \A i \in DOMAIN program :
         /\ counters[i] \in Nat /\ passes[i] \in Nat
         /\ targetIds[i] \in 0..MaxTargets
         /\ saved[i] \in {None} \cup 0..MaxTargets

(* compileFlow accepts exactly the well-nested programs and pairs every    *)
(* block with its own end (the error checks and the stack).                *)
CompilesTheNesting ==
    /\ flow.error <=> ~Legal(program)
    /\ ~flow.error => \A i \in DOMAIN program :
         program[i].op \in Openers => EndsAt(program, i) = {flow.end[i]}

(* A counted loop that ends by its count ran its body that many times, one *)
(* over targets once for each it collected, however its passes ended and   *)
(* whatever loops it contains (counters, Break, Continue).                 *)
LoopsRunTheirCount == left.loop # 0 => left.passes = left.size

(* Outside the loops over targets a flow aims at the target it started     *)
(* with, however it left them (previousTarget).                            *)
TargetRestored ==
    /\ ~flow.error
    /\ \A i \in DOMAIN program : program[i].op # "jump"
    /\ \A i \in DOMAIN program : program[i].op = "foreach" =>
         pc < i \/ pc > flow.end[i] \/ (pc = i /\ counters[i] = 0)
    => target = 0

(* Control never passes from the part before an else into the part after,  *)
(* unless a jump says so.                                                  *)
OneBranchOnly ==
    [][\A i \in DOMAIN program : ~flow.error /\ flow.otherwise[i] # 0 =>
         ~(/\ i < pc /\ pc <= flow.otherwise[i] /\ program[pc].op # "jump"
           /\ flow.otherwise[i] < pc' /\ pc' < flow.end[i])]_flowVars

(* What is inside a parallel block of an accepted program compiles as the  *)
(* program of the branch, unless a break, a continue or a jump in it means *)
(* a place outside.                                                        *)
BranchesCompile ==
    ~flow.error => \A i \in DOMAIN program :
        /\ program[i].op = "parallel"
        /\ \A k \in (i + 1)..(flow.end[i] - 1) :
             /\ program[k].op \in {"break", "continue"} => flow.begin[k] > i
             /\ program[k].op = "jump" => program[k].n \in (i + 1)..(flow.end[i] - 1)
        => ~compileFlow(Branch(program, i)).error

(* Without while loops and jumps every script ends, loops with breaks,     *)
(* continues and retries included.                                         *)
Bounded == \A i \in DOMAIN program : program[i].op \notin {"while", "jump"}
ScriptsEnd == <>(~Bounded \/ flow.error \/ failed \/ pc > Len(program))

(* The compiler, for a program and for the branches cut out of it.         *)
CompileInv == CompilesTheNesting /\ BranchesCompile

(* Where a script stands, what it aims at and how often it has gone round. *)
PlaceInv == FlowTypeOK /\ TargetRestored /\ LoopsRunTheirCount
=============================================================================
