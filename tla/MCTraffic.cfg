\* Two connections in every stage with one slot, the drain beside them; two
\* requests of one connection; two requests over five milliseconds.
CONSTANTS
  Callers <- CallersDef
  Caps <- OneSlot
  None = None
  Quiet = 2
  MaxOpen = 2
  MaxTime = 5
  Conns = {"c1", "c2"}
  Addresses = {"a"}
  Hellos = {"h", "huge"}
SPECIFICATION TrafficFairSpec
INVARIANTS NoSpliceSurvives IdleCutsOnly 
PROPERTIES Returns QueueDrains
CHECK_DEADLOCK FALSE
