SPECIFICATION Spec
CONSTANTS
  Air <- MCAir  Dropped = {}  Frame = 1  Ahead = 1  Back = 7  Chunk = 2
  Dedupe = 21  Lag = 1  Pauses <- MCPauses  Respawn = 3  QueueMax = 1  LastTime = 56
  MaxBreaks = 1
  Order <- MCOrder  Interval <- MCInterval  CacheTTL = 1  TickLen = 2  MaxPass = 1
  MaxChanges = 2
  Alerts <- MCAlerts  Policy <- MCPolicy  Base <- MCBase  Focus <- MCFocus  Gap <- MCGap
  Pace = 9  MaxFlips = 3
  Callers = {"nwws", "now"}  Products <- MCProducts  Known <- MCKnown  Counties <- MCCounties
  Forecast <- MCForecast  Torn <- MCTorn  Marine <- MCMarine  MarineSS = {73}  Area <- MCArea  Days <- MCDays
  Backoff = 1  MaxReceipts = 2  MaxStarts = 2
  Clients = {c1}  Tokens = {t1, t2}  Scopes = {s1}  Lifetimes = {1, 2}  MinTTL = 1
  NoLimit = 9  MaxTime = 3  MaxGeneration = 2
  Text <- MCText  Offices <- MCOffices  Configured <- MCNoSubtypes  DayLen = 2  LocalDay = 1
  Months <- MCMonths  Default = 2  Tolerance = 0  Rejected = {"storm reports"}
  EndOfTime = 5  MaxFaults = 1
  Scripts <- MCScripts  Threads = {"loop", "worker"}  Calls <- MCCalls  MaxLine = 1  MaxTrouble = 2
  Hooks = {"alerts", "errors"}  Options = {"tests"}  Events <- MCEvents
  Rate = 2  PerToken = 2  RetryAfter = 3  MaxNotes = 4
CHECK_DEADLOCK FALSE
INVARIANTS
  ShortIsHeard
  SaidOnce
  ProgrammeIsCurrent
  RoutineReturns
  TargetsHold
  TokensFollowClients
  NoticesHold
  PushesArrive
  NotesAreKept
