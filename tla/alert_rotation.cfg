\* A warning, its continuation, its end and its relay, over two lives.
CONSTANTS
    NoFunc = NoFunc
    Feeds <- OneWarning
    Rank <- SourceRank
    MaxTime = 1
    MaxLives = 2
    MaxFailures = 1
SPECIFICATION FairSpec
INVARIANTS
    RegistryFollowsAir
    QuietMeansSynced
PROPERTIES
    NoGhostPushed
    ScriptsRendered
