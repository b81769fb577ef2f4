\* The beacon answers the panel's request and keeps no record of it.
CONSTANTS
  Upgraders = {u1}
  StaleAfter = 1
  KeepDays = 1
  MaxFiles = 1
  MaxRequests = 1
  MaxFaults = 0
  Fetchers = {"collector", "beacon"}
  CountryOnly = {"beacon", "collector"}
  Skips = {"beacon"}
  SourceChoices <- SourceChoicesDef
  UnclaimedAfter = 0
  StaleClaim = 0
  MaxRefreshes = 1
  MaxFetchFaults = 0
SPECIFICATION UpkeepFairSpec
PROPERTIES FailureIsReal
CHECK_DEADLOCK FALSE
