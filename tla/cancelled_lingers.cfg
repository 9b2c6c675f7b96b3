\* A warning that both sources continue and end.
CONSTANTS
    NoFunc = NoFunc
    Feeds <- Continued
    Rank <- SourceRank
    MaxTime = 0
    MaxLives = 1
    MaxFailures = 0
SPECIFICATION Spec
INVARIANTS
    CancelledIsGone
