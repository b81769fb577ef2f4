\* Two requests to the rows; four to the store; a kill and two rows to the
\* summaries; four days, two refreshes, two updates;
\* three rows or events to the read API: a session over two buckets, an address
\* that both sources saw, a list of more than one page.
CONSTANTS
  Addrs = {"a1"}
  Requests = {"r1", "r2"}
  WindowSize = 2
  IdleTTL = 10
  MaxLag = 1
  MaxTime = 2
  Ips = {"a"}
  Scores = {2}
  Cutoffs = {2, 3}
  Bucket = 2
  Day = 4
  Settle = 1
  Recheck = 2
  MaxSpan = 4
  Keep = 4
  MaxLate = 1
  LastTime = 8
  MaxRows = 2
  MaxKills = 1
  Sites <- SitesDef
  CollectorDays <- CollectorDaysDef
  BeaconDays = 2
  BeaconPerSite <- BeaconPerSiteDef
  CompressAfter = 0
  MinDays = 1
  MaxDays = 4
  DefaultCompressAfterDays = 1
  LastDay = 4
  MaxRetained = 2
  Addresses = {1, 3}
  Files <- FilesDef
  Lookups = {"l1", "l2"}
  MaxEntries = 1
  TTL = 1
  LastTick = 2
  MaxSwaps = 2
  Updates = {"u1", "u2"}
  Archives <- ArchivesDef
  MaxPowerCuts = 1
  Clients <- ClientsDef
  Visits <- VisitsDef
  Periods <- PeriodsDef
  SessionTimeout = 1
  BucketWidth = 2
  BotScoreMin = 50
  Limit = 1
  LastArrival = 3
  MaxStored = 3
SPECIFICATION CollectionSpec
INVARIANTS SkippedOnlyIfLate PauseIsExact StoreRemembers SummaryIsExact AnswersAreRecent FileCanBeRead EventsAreKept FiguresAddUp
CHECK_DEADLOCK FALSE
