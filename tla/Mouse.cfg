CONSTANTS
    Worker = Worker
    Free = Free
    Callers = {c1, c2, c3}
    Deltas = {1}
    MaxComponent = 30
    WordSize = 128
    EventCap = 2
    ExtraDriver = "none"
    MaxCalls = 3
SPECIFICATION FairSpec
CHECK_DEADLOCK FALSE
INVARIANTS TypeOK ClearIsABarrier SuspendedMeansQuiet ButtonOvertakenAtMostOnce FeedbackConservation
PROPERTIES NoCallOrMoveIsStranded ImplementsPort
