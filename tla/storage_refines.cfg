CONSTANTS
  Keys <- MCKeys
  Vals <- MCVals
  DefaultVal = 0
  Adapters <- All
  FaultsOf <- ReportedFaults
  Missing = Missing
  Corrupt = Corrupt
  NoReq = NoReq
  MaxFaults = 3
  MaxDamage = 0
SPECIFICATION Spec
INVARIANT RamMatchesCard
PROPERTY ImplementsRegister
