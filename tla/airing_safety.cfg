\* One process, four sources: a new warning from CAP, its marine continuation
\* from NWWS-OI, a civil alert from IPAWS and ERN, and a second relay.
CONSTANTS
    NoFunc = NoFunc
    NoMessage = NoMessage
    Messages <- TwoFeeds
    Cooldown <- OneTick
    Ttl = 1
    MaxDeliveries = 1
    MaxTime = 1
    MaxLives = 1
SPECIFICATION Spec
INVARIANTS
    ReservationsAccounted
    NoDoubleTone
CHECK_DEADLOCK FALSE
