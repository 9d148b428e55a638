SPECIFICATION FairSpec
CONSTANTS
  Models <- TwoModels
  SizeOf <- OwnSize
  MaxFrames = 1
  MaxOperations = 1
  MaxChanges = 1
  MaxCrashes = 0
PROPERTIES StopsWhole
