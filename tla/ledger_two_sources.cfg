\* Two sources rewrite the same table.
CONSTANTS
    nws = nws
    ipaws = ipaws
    a1 = a1
    a2 = a2
    a3 = a3
    Pollers <- TwoSources
    Alerts <- TwoAlerts
    MaxAge = 2
    OfferTime = 2
    QueueMax = 2
    MaxSeenKeys = 9
    MaxLives = 2
    MaxTime = 3
    StoreFails = FALSE
SPECIFICATION Spec
SYMMETRY AlertSymmetry
INVARIANTS
    NoRestartSpam
