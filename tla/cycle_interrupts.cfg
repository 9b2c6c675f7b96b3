\* Interrupts of both planes and refills over a cycle whose segments are ready.
CONSTANTS
    Lookahead = 5
    TickLength = 2
    StatusPoll = 1
    Rotation <- ShortRotation
    TimeBufs = 2
    RenderTime = 1
    Durations <- ShortAlerts
    GuessedHold = 1
    Unreadable = TRUE
    MaxInterrupts = 3
    MaxDirect = 0
    MaxRefills = 2
    MaxLag = 6
    StatusKnown = TRUE
    AlwaysReady = TRUE
    Faulty = FALSE
SPECIFICATION FairSpec
INVARIANTS
    NothingBehindInterrupt
    BacklogTracked
PROPERTIES
    CycleReturns
