\* Every memo and every answer of Jev.
CONSTANTS
  a = a  b = b  c = c
  v = v  w = w
  t1 = t1  t2 = t2  t3 = t3  p1 = p1  p2 = p2
  None = None  Corrupt = Corrupt  Bad = Bad  Empty = Empty  Torn = Torn
  Entries = {a, b}  Names = {v, w}  Threads = {t1, t2}
  Defaults <- FirstName  MaxSymbols = 2  StoredLists <- OneList
  Searched = {a, b, c}  MaxRecent = 2  MaxStamp = 1  StoredRecents <- SomeRecents
  Filers = {a}  Interval = 1  Retries = 1  PackTtl = 1
  MaxReconnects = 1  MaxEvents = 3  MaxFrame = 2
  Sites = {"here", "hub"}  Home = "here"  SiteThreads = {t1, t2, t3}  SiteOf <- TwoSites
  Callers = {a}  Hops = {0}  MaxHop = 1  PerIp = 1  MaxAddresses = 1  SiteCap = 1  DayLength = 1
  Cap = 1  ForecastTtl = 1  MaxForecasts = 1  LocalShift = 1
  MaxCalls = 3  MaxSelections = 3  MaxFaults = 1  MaxWriteFaults = 2
  MaxPackCalls = 2  MaxSiteCalls = 2  MaxMinutes = 1  MaxHalfDays = 2
  Queries = {a, b, c}  Long = {a, b}  Watchlists = {a, b}  DefaultList = a
  Ranges = {"3mo", "1y"}  Intervals = {"15m", "1d"}  ChartOpening = {"1d"}  Daily = "1d"
  PeriodOf <- PeriodOfInterval
  Timed = {"torque"}  Forecast = "forecast"  Deep = {"moneyline"}  LensOpening <- GlanceDaily
  Plain = {"chart"}  Foreign = "vision"
  MigrateLimit = 2  ChatLimit = 2  MaxTurns = 2  MaxMessages = 4
  MaxScreenCalls = 5  MaxPanelCalls = 4  MaxChartCalls = 2
  TorqueFilings <- ScoredFilings  TorqueProfiles <- ScoredProfiles  TorqueCharts <- ScoredCharts  Growths <- SomeGrowths
  ReclassFilings <- NamedFilings  ReclassProfiles <- NamedProfiles  ReclassCharts <- NamedCharts
  Stories <- SomeStories
  RecordIds = {a, b}  RecordSize <- OneOfTwo  RecordOrder <- OrderOfTwo  MaxRecords = 1  MaxBytes = 2
  MaxRecordClock = 2  MaxRecordCalls = 3  MaxWaiting = 2
  CacheKeys = {a, b}  ItemSize <- TwoOfThree  ItemOrder <- OrderOfTwo  MaxItems = 2  MaxItemBytes = 4
  CacheFound <- CorruptOne  CacheOps = {"read", "write", "clear"}  MaxCacheClock = 2  MaxRequests = 3  MaxActive = 2
  Workers = {t1, t2}  WorkerOf <- EachAlone  PacketDays = {1, 2}  MaxPackets = 3
  ChatThreads = {t1, t2, t3}  ChatWorkers = {p1, p2}  ChatWorkerOf <- OneAndTwo  HistoryLimit = 1  MaxChats = 3
  SeriesFile = a  SeriesTtl = 0  MaxSeriesClock = 1  MaxSeriesCalls = 3
  Quoted = {a, b}  MaxQuotes = 1  QuoteTtl = 1  SearchSlots = 1  FallbackEnabled = TRUE  MaxMarketCalls = 2
  Rated = {a, b}  ScoreTtl = 2  FailureTtl = 1  MaxScoreClock = 2  MaxScorings = 3
  Named = {a, b, c}  Inside <- OneInside  Candidates <- OwnAndInside  Words = v  Memos <- SomeMemos  Reports <- SomeReports
  Lanes = {"Priority", "Risk", None}  Ridges = {"BUY", "BUY SETUP", "SELL", None}
  Locations = {"above value", "below value", None}  Batches <- OneOrTwoRows  Caps = {1, 3}
  BatchWorkers = 2  BatchSize = 3  BuildWorkers = 4  MaxFailures = 1  Wishes <- ThreeWishes
  InPlay = {"citations"}
SPECIFICATION Spec
INVARIANT FieldlessNeverVerified
CHECK_DEADLOCK FALSE
