CONSTANTS
  N = 2
  Chunks = 1
  MaxRing = 3
  Refresh = {"tme"}
  Other = {}
  Stream = {}
  Faults <- TimelyReuse
SPECIFICATION Spec
PROPERTIES ClientKeepsSlot
