----------------------------- MODULE MCRuleFlow -----------------------------
(* Programs for model checking RuleFlow: all lists over three alphabets.   *)
EXTENDS RuleFlow

A(op) == [op |-> op, n |-> 0]

LoopActs   == {[op |-> "loop", n |-> 1], [op |-> "loop", n |-> 2]} \cup
              {[op |-> "jump", n |-> 4]} \cup
              {A(op) : op \in {"endloop", "if", "else", "endif", "break", "continue"}}
TargetActs == {[op |-> "loop", n |-> 2], [op |-> "retry", n |-> 1]} \cup
              {A(op) : op \in {"foreach", "endloop", "if", "endif", "break", "continue"}}
BranchActs == {A(op) : op \in {"while", "endloop", "switch", "case", "endswitch",
                               "parallel", "endparallel", "break", "plain"}} \cup
              {[op |-> "jump", n |-> 2]}

Lists(acts, most) == UNION {[1..n -> acts] : n \in 0..most}

SmallPrograms == Lists(LoopActs, 5) \cup Lists(TargetActs, 5) \cup Lists(BranchActs, 4)
=============================================================================
