CONSTANTS
  N = 2
  Chunks = 2
  MaxRing = 3
  Refresh = {"tme"}
  Other = {}
  Stream = {"lpc"}
  Faults <- Timely
SPECIFICATION Spec
INVARIANTS RawIsPlanned
PROPERTIES ClientKeepsSlot
