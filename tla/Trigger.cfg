SPECIFICATION FairSpec
CONSTANTS
    MinPulse = 1
    MinTap = 1
    RefreshAfter = 1
    Horizon = 2
    Profiles <- SafetyProfiles
    NoHotkey = NoHotkey
    Keyboard = TRUE
    MaskCapable = TRUE
    Expires = FALSE
    MaskSpan = 2
    MinHold = 1
    Macros = TRUE
    Reconnects = TRUE
    Stalls = TRUE
    MaxEvents = 3
INVARIANTS OutputInv QuietWhenReleased
PROPERTIES ShotIsReady TapsOnce ReleaseEnds
