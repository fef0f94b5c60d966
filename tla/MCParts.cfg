SPECIFICATION PartsSpec
CONSTANTS
  alice = alice
  bob = bob
  first = first
  second = second
  None = None
  Permanent = Permanent
  Transient = Transient
  Engine = engine
  Request = {alice}
  Cell = {first, second}
  MaxGeneration = 2
  MaxEvents = 1
  SubKey = {alice}
  Malformed = Malformed
  Routings = {"robin"}
  Valid <- MCValid
  Resolves <- MCResolves
  Loopback <- MCLoopback
  DefaultBind = "loop"
  Edits <- MCEdits
  ServeProxy = TRUE
  MaxId = 1
  Poller = {alice, bob}
  Round = alice
  Interval = 4
  TTL = 4
  Backoff <- MCBackoff
  Deadline = 2
  Floor = 5
  MaxFailures = 2
  MaxClock = 12
  Sub = {alice}
  Pool = {bob}
  Tried = {first, second}
  Hour = 1
  MaxTicks = 2
  MaxPosts = 2
  MaxForgets = 1
  MaxTime = 2
  Account = {alice}
  Kind = {"session"}
  Percent = {0, 1}
  Thresholds <- MCThresholds
  RecheckInterval = 1
  MaxHappened = 3
  MaxHour = 1
  Target = {alice, bob}
  Resends = 1
  MaxChanges = 1
  MaxSubId = 3
  Labels <- MCLabels
  Brief <- MCBrief
  Names <- MCNames
  Plans = {None, "Plus"}
  Spelt <- MCSpelt
  Overrides <- MCOverrides
  SubReadings <- MCReadings
  Warn = 75
  Critical = 90
  Gates <- MCGates
  MaxMoves = 4
  MaxDate = 1
  Asker = {first, second}
  CacheTtl = 1
  VersionTtl = 3
  Fallback = "fallback"
  MaxAsked = 2
  MaxMoment = 1
  Person = {alice, bob}
  Codex <- MCCodex
  Profile <- MCProfile
  Grant <- MCGrant
  Coder = {bob}
  Logins <- MCLogins
  WalletPlans = {"max"}
  MaxMinted = 2
  Provider = {"codex"}
  MaxFlow = 2
INVARIANTS ProxyAgrees SnapshotIsCurrent MemoryFollowsFile PollsArePaced StalenessIsBounded CountersAgree AlertsAreCrossings HealthIsHonest StaysInPool CostIsBounded DiskCatchesUp FiguresAreHonest CatalogIsSparing RecordsAreTheirOwn HandleReachesFlow
PROPERTIES NoNeedlessRotation
SYMMETRY Symmetry
CHECK_DEADLOCK FALSE
