\* A WCN watch without SAME targets, then the CAP alert for the same watch.
CONSTANTS
    NoFunc = NoFunc
    NoMessage = NoMessage
    Messages <- WatchWithoutTargets
    Cooldown <- OneTick
    Ttl = 1
    MaxDeliveries = 1
    MaxTime = 0
    MaxLives = 1
SPECIFICATION Spec
PROPERTIES
    DuplicateIsCovered
CHECK_DEADLOCK FALSE
