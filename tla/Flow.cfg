SPECIFICATION FairSpec
CONSTANTS
  Programs <- SmallPrograms
  MaxNesting = 2
  MaxTargets = 2
INVARIANTS CompileInv PlaceInv
PROPERTIES OneBranchOnly ScriptsEnd
