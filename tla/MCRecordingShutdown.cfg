\* A request recorded during the drain, after the last flush.
CONSTANTS
  Addrs = {a1}
  Requests = {r1}
  WindowSize = 2
  IdleTTL = 10
  MaxLag = 0
  MaxTime = 2
SPECIFICATION Spec
CHECK_DEADLOCK FALSE
INVARIANTS LastIntervalIsFlushed
