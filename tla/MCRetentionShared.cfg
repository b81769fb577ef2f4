\* Two collectors with different days write one table.
CONSTANTS
  Sites <- SitesDef
  CollectorDays <- CollectorDaysDef
  BeaconDays = 2
  BeaconPerSite <- BeaconPerSiteDef
  CompressAfter = 0
  MinDays = 1
  MaxDays = 4
  DefaultCompressAfterDays = 1
  LastDay = 4
  MaxRetained = 2
SPECIFICATION RetentionSpec
INVARIANTS TrafficIsKept
CHECK_DEADLOCK FALSE
