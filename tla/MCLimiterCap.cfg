\* Concurrency cap and throttle queue, with the configuration changing.
CONSTANTS
  Callers = {c1, c2, c3}
  Configs <- CapConfigs
  WindowSize = 1
  MaxLag = 0
SPECIFICATION Spec
SYMMETRY CallerSymmetry
INVARIANTS SlotsAccounted
PROPERTIES ImplementsAdmission
