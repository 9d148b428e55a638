SPECIFICATION FairSpec
CONSTANTS
  Models <- OneModel
  SizeOf <- OwnSize
  MaxFrames = 2
  MaxOperations = 1
  MaxChanges = 0
  MaxCrashes = 1
PROPERTIES StopsWhole NothingIsForgotten
