SPECIFICATION FairSpec
CONSTANTS
    k1 = k1
    k2 = k2
    k3 = k3
    l = l
    r = r
    Keys = {k1, k2, k3}
    NoKey = NoKey
    Pressed = {k1, l}
    Slots = 2
    Buttons = {l, r}
    Devices = {"keyboard", "mouse"}
    Commands <- BoxCommands
    Moves <- BoxMoves
    Sat = 1
    DeltaWord = 4
    Word = 4
    HostResidue = 0
    PcResidue = 0
    MaskMax = 1
    IdWait = 2
    Beat = 1
    Fates = {"whole", "lost", "cut"}
    PcFates = {"whole", "cut"}
    WireCap = 2
    MaxStall = 1
    MaxEvents = 2
    MaxCommands = 2
INVARIANTS BoxInv HeldIsKnown MovesShownOnce
PROPERTIES IdentityIsHeard TimedHoldsEnd SeenInTheEnd
