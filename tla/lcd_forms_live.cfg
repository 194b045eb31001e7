CONSTANTS
  Ports <- MCPorts
  N = 1
  Vals <- MCVals
  Modes <- MCModes
  Duties <- MCDuties
  Pwm = "pwm"
  Routed <- MCRouted
  Unset = Unset
  BootCells <- MCBootCells
  MaxSerial = 2
  MaxWrites = 1
SPECIFICATION FairSpec
PROPERTIES SaveAnswered FormLoads
