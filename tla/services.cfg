SPECIFICATION FairSpec
CONSTANTS
  Workers = {w1, w2, w3}  NoWorker = NoWorker  MaxSlow = 1
  Sources = {"nwws_oi", "cap_api", "nws_api"}  Critical = {"cap_api"}
  Probed = {"cap_api", "nws_api"}  Role <- MCRole
  StaleAfter <- MCStaleAfter  Threshold <- MCThreshold  MinHold = 3  Interval = 2
  Ids = {"t1", "t2", "r", "m"}  Relays = {"r"}  Notes <- MCNotes
  MaxItems = 2  Grace = 0  LastTime = 3  MaxBreaks = 1
CHECK_DEADLOCK FALSE
INVARIANTS
  SessionSafe
  HealthHonest
  FeedFollowsAir
PROPERTIES
  LostIsReplaced
  ExpiredLeaves
