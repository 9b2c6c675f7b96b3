\* A new warning and its continuation, each from CAP and NWWS-OI; failures,
\* crashes and restarts.
CONSTANTS
    NoFunc = NoFunc
    NoMessage = NoMessage
    Messages <- Lifecycle
    Cooldown <- OneTick
    Ttl = 1
    MaxDeliveries = 1
    MaxTime = 2
    MaxLives = 2
SPECIFICATION FairSpec
INVARIANTS
    NoDoubleAir
PROPERTIES
    AirsOnce
    DuplicateIsCovered
    UpdateIsCovered
    ToneoutHeard
CHECK_DEADLOCK FALSE
