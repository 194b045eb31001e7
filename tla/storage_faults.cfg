CONSTANTS
  Keys <- MCKeys
  Vals <- MCVals
  DefaultVal = 0
  Adapters <- All
  FaultsOf <- SurvivableFaults
  Missing = Missing
  Corrupt = Corrupt
  NoReq = NoReq
  MaxFaults = 3
  MaxDamage = 1
SPECIFICATION FairSpec
INVARIANTS TypeOK SavedIsStored NoSelfLockout
PROPERTIES ValidCopyKept SalvageKept WritesRecover
