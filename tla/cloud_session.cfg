CONSTANTS
  Nonces <- MCNonces
  Packets = 2
  MaxFaults = 2
  None = None
SPECIFICATION FairSpec
INVARIANTS TypeOK
PROPERTIES EndsHonestly WebComesBack
CHECK_DEADLOCK FALSE
