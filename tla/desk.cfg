SPECIFICATION FairSpec
CONSTANTS
  Keys = {k1}  None = None
  MaxDbFaults = 1  MaxCrashes = 1  MaxFaults = 1
  Day = 2  Week = 4  Month = 8  At <- MCAt
  Jitter = 1  Policy <- MCPolicy  Postpone = 1  PostponeHours = 2  PostponeDays = 1
  Heightened = 3  Cooldown = 2  CapBlock = 2  ErnBlock = 2  HeightenFor = 2
  BlockHeightened = {"RWT", "RMT"}  BlockToneout = {"RWT"}  BlockCap = {"RWT"}  BlockErn = {"RMT"}
  Rendering = 1  Horizon = 6  MaxAlerts = 1  MaxSaveFaults = 1
CHECK_DEADLOCK FALSE
INVARIANTS
  RanOnce
  OncePerPeriod
  HeightenedWhileOwed
PROPERTIES
  AcceptedEnds
