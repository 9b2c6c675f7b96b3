\* Refills restart the rotation while announcements wait.
CONSTANTS
    Lookahead = 3
    TickLength = 1
    StatusPoll = 1
    Rotation <- ShortRotation
    TimeBufs = 2
    RenderTime = 1
    Durations <- ShortAlerts
    GuessedHold = 3
    Unreadable = FALSE
    MaxInterrupts = 0
    MaxDirect = 0
    MaxRefills = 4
    MaxLag = 4
    StatusKnown = TRUE
    AlwaysReady = TRUE
    Faulty = FALSE
SPECIFICATION Spec
INVARIANTS
    TimeBuffersApart
