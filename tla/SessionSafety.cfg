SPECIFICATION Spec
CONSTANTS
  Models <- TwoModels
  SizeOf <- OwnSize
  MaxFrames = 1
  MaxOperations = 2
  MaxChanges = 1
  MaxCrashes = 1
INVARIANTS SessionInv BatchOfThisSession
PROPERTIES EachFrameUsedOnce
