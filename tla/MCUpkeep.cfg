\* Two upgraders at a backup, two services at the ranges; one fault in each.
CONSTANTS
  Upgraders = {u1, u2}
  StaleAfter = 1
  KeepDays = 1
  MaxFiles = 2
  MaxRequests = 1
  MaxFaults = 1
  Fetchers = {"collector", "beacon"}
  CountryOnly = {"beacon", "collector"}
  Skips = {"beacon"}
  SourceChoices <- SourceChoicesDef
  UnclaimedAfter = 0
  StaleClaim = 0
  MaxRefreshes = 1
  MaxFetchFaults = 1
SPECIFICATION UpkeepFairSpec
INVARIANTS OneClaimant NoLostFile
PROPERTIES RequestsEnd LookupsSurvive
CHECK_DEADLOCK FALSE
