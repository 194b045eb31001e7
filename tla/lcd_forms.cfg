CONSTANTS
  Ports <- MCPorts
  N = 2
  Vals <- MCVals
  Modes <- MCModes
  Duties <- MCDuties
  Pwm = "pwm"
  Routed <- MCRouted
  Unset = Unset
  BootCells <- MCBootCells
  MaxSerial = 2
  MaxWrites = 1
SPECIFICATION Spec
INVARIANTS TypeOK ShownIsSnapshot NothingRetained
PROPERTIES CommitOverSeen CommitOfDraft DroppedDraftWasSaved
