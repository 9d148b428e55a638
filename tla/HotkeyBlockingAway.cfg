SPECIFICATION FairSpec
CONSTANTS
    Buttons = {1}
    Axes = {6}
    MaxFaults = 1
    MaxChanges = 1
    MaxPresses = 0
PROPERTY LocksFollowAlways
