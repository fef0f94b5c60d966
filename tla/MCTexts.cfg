SPECIFICATION PartsSpec
CONSTANTS
  None = None
  Junk = Junk
  Malformed = Malformed
  Text = Text
  alice = alice
  bob = bob
  bare = bare
  CR = "cr"
  LF = "lf"
  Data <- MCData
  Event <- MCEvent
  WithId <- MCWithId
  Answers <- MCStreams
  NoData = "nodata"
  Blank = ""
  Done = "[DONE]"
  MaxChunk = 4
  Percent = {0, 120}
  Changes = 1
  Ceilings <- MCCeilings
  Documents <- MCDocuments
  Writes <- MCWrites
  Providers = {"codex", "claude"}
  Lower <- MCLower
  Unroutable = {"", "a/b"}
  Fractions = {"0.5", "1.0"}
  Strategies = {"round-robin", "lowest-usage"}
  Loopback <- IsLoopback
  Duration <- IsDuration
  ProxyKey = "key"
  Paths <- MCPaths
  PoolNames = {"moonshot", "v1"}
  Bodies <- MCBodies
  Objects = {bare}
  ObjectItem <- MCObjectItem
  Systems <- MCSystems
  Betas <- MCBetas
  MaxTurns = 3
  Pid = {1, 2}
  MaxActs = 4
  EndpointOf <- MCEndpointOf
  Capacity = 2
  Retain = 10
  MaxHold = 30
  Key = {alice, bob}
  Adopted <- MCAdopted
  Kinds <- MCKinds
  Pcts = {20, 60}
  Tokens = {300}
  Tabs <- MCTabs
  Keys = {"k", "space", "a", "p", "tab", "]", "5"}
  Jumps = {20}
  Columns = 15
  Height = 12
  Start = 20000
  MaxNow = 20020
  MaxMoves = 3
INVARIANTS ChunksDoNotMatter ClientSeesItsChain AnswerIsWhole CountedOnce ReadingIsHonest FileMeansMemory RequestsAreUnderstood  ScreenIsTrue
CHECK_DEADLOCK FALSE
