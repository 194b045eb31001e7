CONSTANTS
  N = 2
  Chunks = 1
  MaxRing = 2
  Refresh = {"tme"}
  Other = {"save"}
  Stream = {}
  Faults <- Troubled
SPECIFICATION Spec
INVARIANTS TypeOK OnePending PlanStaysValid 
PROPERTIES StartsFresh FrozenOnceStarted
