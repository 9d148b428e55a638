SPECIFICATION FairSpec
CONSTANTS
    Buttons = {1}
    Axes = {6}
    MaxFaults = 2
    MaxChanges = 2
    MaxPresses = 1
INVARIANTS BlockingInv CertainMeansLocked
PROPERTIES LocksFollow
