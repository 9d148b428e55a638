SPECIFICATION FairSpec
CONSTANTS
  a = a
  b = b
  c = c
  k1 = k1
  k2 = k2
  NoKey = NoKey
  NoStep = NoStep
  Rules = {a, b, c}
  Configurations <- Users
  Keys = {k1, k2}
  MaxFlows = 3
  MaxJobs = 3
  MaxDepth = 2
  Budget = 2
  MaxPauses = 1
INVARIANTS KeysInv HoldersOwnOutput FlowsInv IdleHoldsNothing
PROPERTIES SharedKeyStaysDown EveryTickEnds
