SPECIFICATION ServiceSpec
CONSTANTS
  t1 = t1
  t2 = t2
  Nobody = Nobody
  MaxRestarts = 1
  \* LibraryAuth
  Token = {"k1", "k2"}
  Thread <- MCThread
  PosTtl = 1
  NegTtl = 1
  Hop = 1
  CacheSize = 0
  MaxTime = 4
  \* SignIn
  Person <- MCPerson
  Allowlist = {"foo-bar", "@here", "ann@there"}
  State = {"s1", "s2"}
  Device = {"d1"}
  Browser = {"b1"}
  MaxPending = 1
  Ttl = 1
  NoState = "no state"
  NoPerson = "nobody"
  MaxTokens = 3
  MaxSignInTime = 2
  \* Upstream
  Period = 2
  Burst = 2
  MaxWait = 2
  Lag = 1
  Lifetimes = {1, 5}
  Margin = 4
  MaxUpstreamTime = 7
  \* AnswerCache
  ProxyAnswer = {"v1", "v2"}
  NoPayload = "none"
  MaxAsks = 4
  \* PortsStore
  Build = {"a", "b", "c"}
  TooBig = {"c"}
  Uploader <- MCUploader
  \* ArtCache, Warmer
  Warmer = {"w1", "w2"}
  Viewer = {"v1"}
  MaxOverlap = 2
  Game = {"a", "b"}
  WarmRun = {"r1", "r2"}
  Refresh = {"r2"}
  GIVE_UP_AFTER = 2
  \* LogsStore
  LogSession = {1, 2, 3}
  LogSize = {1, 2}
  quota_bytes = 3
  max_upload_bytes = 2
  MaxLogsClock = 1
  \* Catalog
  Key = {"k1"}
  Path = {"p1", "p2"}
  Writer = {"w1"}
  MaxClock = 3
  MaxDisk = 1
  \* Indexer
  Base = {"a1", "b1"}
  Extra = {"u"}
  GameOf <- MCOf
  GameBefore <- MCBefore
  Full = {"full"}
  Matching = {"match"}
  SweepLimit = 50
  MaxRuns = 3
  MaxTurns = 3
  MaxFaults = 1
  MaxDrops = 1
  OneGames = {"a"}
  OneBase = {"a1"}
  OneExtra = {"u", "v"}
  OneOf <- MCOfOne
  OneBefore <- MCOneBefore
  MaxOneRuns = 2
  MaxOneTurns = 4
  \* Hashes
  HashRun = {"r1", "r2", "r3"}
  Unhashed = {"r3"}
  HashInode = {1, 2}
  MaxWrites = 3
  \* Connection
  HttpRequest <- MCRequest
  listener = "public"
  Cap = 2
  Unreadable <- MCUnreadable
  MaxRequests = 2
  \* Download
  Process <- MCThread
  Size <- MCSize
  Slots = 1
  Attempts = 3
  MaxBreaks = 2
  \* Planner
  DumpName <- MCName
  PlatformOf <- MCPlatformOf
  DatDirs <- MCDatDirs
  Target <- MCTarget
  Overrides <- MCOverrides
  MinSet = 2
  MaxFiles = 3
SYMMETRY ServerSymmetry
CHECK_DEADLOCK FALSE
INVARIANTS AcceptedLately SignInIsSound ProxyIsKept PointerStands OneAnswer
  QuotaHolds ScanIsTrue IndexIsTrue 
  AnswersAreFramed DownloadIsWhole
