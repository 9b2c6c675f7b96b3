\* No symmetry: the ids, products and zones play different parts.
SPECIFICATION FairSpec
CONSTANTS
  text1 = text1  file1 = file1  now1 = now1  now12 = now12  now2 = now2
  p1 = p1  p2 = p2  p3 = p3  z1 = z1  z2 = z2
  Ids <- MCIds  Items <- MCItems  NoItem = NoItem  Never = Never
  Endless = {now1, now12, now2}
  MaxAirings <- MCMaxAirings  Every <- MCEvery  Deferred = {file1}
  Ops <- MCOps  OfUpload = {file1}  Products <- MCProducts
  IdOf <- MCIdOf  Zones <- MCZones  Issued <- MCIssued
  InArea = {p1, p2}  Missed = {p1, p2}  Idle = Idle
  Offers <- MCOffers
  QueueMax = 2  MaxRotations = 2  MaxFaults = 1  MaxRestarts = 1
CHECK_DEADLOCK FALSE
INVARIANTS
  AirsAsAsked
  OneNowPerZone
  AudioKept
PROPERTIES
  NowGetsOnAir
