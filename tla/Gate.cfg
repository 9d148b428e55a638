SPECIFICATION Spec
CONSTANTS
  RuleSet <- AllRules
  Targets = {0, 1}
  MaxTime = 4
  Suppression = TRUE
INVARIANTS GateInv
PROPERTIES NothingIsReplayed LimitsHold
