\* Telnet calls fail, segments are missing, refills and API pushes come.
CONSTANTS
    Lookahead = 2
    TickLength = 1
    StatusPoll = 1
    Rotation <- TwoSegments
    TimeBufs = 1
    RenderTime = 1
    Durations <- ShortAlerts
    GuessedHold = 3
    Unreadable = TRUE
    MaxInterrupts = 2
    MaxDirect = 1
    MaxRefills = 1
    MaxLag = 1
    StatusKnown = TRUE
    AlwaysReady = FALSE
    Faulty = TRUE
SPECIFICATION Spec
INVARIANTS
    SilenceBounded
PROPERTIES
    NoPushDuringHold
