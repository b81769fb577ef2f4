\* Two presses, a row set by hand, a crash and a clock set back; three lines
\* and a buffer of one; two lines, three days, three starts.
CONSTANTS
  Spacing = 1
  MaxLag = 1
  MaxTime = 3
  MaxCrashes = 1
  MaxSteps = 1
  MaxWrites = 1
  Junk = Junk
  None = None
  LogLines = {"l1", "l2", "l3"}
  LogBuffer = 1
  TreeLines = {"t1", "t2"}
  Categories = {"app", "error", "audit"}
  Important = {"audit"}
  FileLines = 1
  ArchiveAfter = 1
  Retention = 2
  ImportantRetention = 3
  MaxDay = 3
  MaxStarts = 3
SPECIFICATION ServiceFairSpec
INVARIANTS NoRestartLoop LinesAccounted KeptForItsTime
PROPERTIES Honoured
CHECK_DEADLOCK FALSE
