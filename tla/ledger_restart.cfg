\* One source, stores that work, three lives of the process.
CONSTANTS
    nws = nws
    ipaws = ipaws
    a1 = a1
    a2 = a2
    a3 = a3
    Pollers <- OneSource
    Alerts <- TwoAlerts
    MaxAge = 2
    OfferTime = 2
    QueueMax = 1
    MaxSeenKeys = 9
    MaxLives = 3
    MaxTime = 3
    StoreFails = FALSE
SPECIFICATION Spec
SYMMETRY AlertSymmetry
INVARIANTS
    NoRestartSpam
