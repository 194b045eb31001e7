CONSTANTS
  Cells <- MCCells
  ValsOf <- MCValsOf
  Relay = "relay"
  Pwm = "pwm"
  Outputs <- MCOutputs
  Report <- MCReport
  Percents <- MCPercents
  MaxToggles = 2
  MaxSerial = 2
  MaxWrites = 1
  BootTables <- MCBoot
  Disabled = "disabled"
  NoName = "none"
  None = None
  Unknown = Unknown
SPECIFICATION MCSpec
INVARIANTS TypeOK SavedMeansAll
PROPERTIES ImplementsBatches PressesObeyed SaveAnswered PressServed
