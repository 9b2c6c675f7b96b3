\* A continuation, then a product that cancels part and continues the rest.
CONSTANTS
    NoFunc = NoFunc
    NoMessage = NoMessage
    Messages <- PartialCancel
    Cooldown <- OneTick
    Ttl = 1
    MaxDeliveries = 1
    MaxTime = 1
    MaxLives = 1
SPECIFICATION Spec
PROPERTIES
    UpdateIsCovered
CHECK_DEADLOCK FALSE
