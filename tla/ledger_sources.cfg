\* Two sources over one table, stores that fail, caches that are cleared.
CONSTANTS
    nws = nws
    ipaws = ipaws
    a1 = a1
    a2 = a2
    a3 = a3
    Pollers <- TwoSources
    Alerts <- OneAlert
    MaxAge = 2
    OfferTime = 2
    QueueMax = 1
    MaxSeenKeys = 0
    MaxLives = 2
    MaxTime = 2
    StoreFails = TRUE
SPECIFICATION Spec
INVARIANTS
    MarksAreOwn
