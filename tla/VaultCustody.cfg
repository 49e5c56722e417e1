\* Custody: one coin of either tier, one key in other hands.
SPECIFICATION FairSpec
CONSTANTS
  HardwareRecoveryCSVBlocks = 2
  PhoneRecoveryCSVBlocks = 3
  RecoveryCSVBlocks = 4
  PolicyExitDelay = 2
  BoardExitDelay = 3
  AbsoluteFeeCap = 1
  P2AValue = 1
  Dust = 1
  Amounts = {2, 9}
  MaxCopied = 1
  Watch = 1
  None = None
INVARIANTS
  
  LossBounded
PROPERTIES
  Recoverable
CHECK_DEADLOCK FALSE
