\* Two presses at once, a message and two saved accounts, a restore of two sets, three
\* requests to the beacon, and a page of checks that is asked for twice.
CONSTANTS
  Presses = {p1, p2}
  MaxFaults = 1
  MaxChanges = 1
  Jobs = {"j1"}
  Kinds = {"probe", "link"}
  MaxSaves = 2
  Conditions = {"information", "plain table", "service down"}
  MaxConditions = 2
  MaxWorldChanges = 1
  MaxPages = 2
  Devices = {1, 2}
  Paths = {"logs", "state"}
  DeviceOf <- DeviceOfDef
  Size = 6
  Reserve = 2
  MaxBackups = 2
  Readings <- ReadingsDef
  Version = 2
  Sets <- SetsDef
  Dropped = {"t2"}
  ConfFiles = {"c1", "c2"}
  MaxFileSize = 2
  MaxTotal = 3
  Room = 6
  FreeMargin = 2
  MaxTx = 1
  MaxAsked = 3
  MaxRestoreFaults = 1
  Reqs = {r1, r2, r3}
  NoSite = NoSite
  Sites = {a}
  Configured = {}
  BufferSize = 2
  BatchSize = 2
  LooksUp = TRUE
  Period = 1
  MaxTime = 1
  MaxPolls = 1
  Binaries = {"upgrader", "panel"}
  Services = {"panel"}
  Versions = {1, 2}
  BadVersion = 9
  Restarter = TRUE
  ReleaseStale = 1
  MaxAsks = 2
  MaxCrashes = 1
  SchemaFiles = 2
  Others = {"there"}
  MaxVisits = 1
  ClaimStale = 1
  Backups = TRUE
SPECIFICATION Spec
INVARIANTS BackupsAreTrue OnlyOursIsWiped BytesAreHonest PressesAreHonest Accounted SaltsExpire MailIsGuarded LastGoodKept
PROPERTIES ReadyWhenSaid UpgradesAreTrue
CHECK_DEADLOCK FALSE
