\* The newest file is lost, and the age limit comes round for the others.
CONSTANTS
  Upgraders = {u1}
  StaleAfter = 1
  KeepDays = 1
  MaxFiles = 2
  MaxRequests = 2
  MaxFaults = 1
SPECIFICATION Spec
PROPERTIES LastBackupKept
