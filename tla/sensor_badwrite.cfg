CONSTANTS
  Keys <- MCKeys
  Vals <- MCVals
  DefaultVal = 0
  Adapters <- Sensor
  FaultsOf <- BadWrites
  Missing = Missing
  Corrupt = Corrupt
  NoReq = NoReq
  MaxFaults = 1
  MaxDamage = 0
SPECIFICATION Spec
INVARIANT SavedIsStored
