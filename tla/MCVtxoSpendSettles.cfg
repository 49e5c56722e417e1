\* Settlement: racing status reads, checkpoint calls and failures.
SPECIFICATION FairSpec
CONSTANTS
  Vaults = {v1}
  OpIds = {o1}
  Coins = {x1}
  CoinsOf <- OneVaultCoins
  Requests = {r1}
  Checkpoints = {k1}
  FeePolicies = {f1, f2}
  Allowance <- OneVaultAllowance
  AllowanceWindow = 2
  ReserveTimeout = 1
  None = None
  Calls = {c1, c2}
  Amounts = {1}
  Fees = {0}
  Counts = {0}
  MaxTime = 1
PROPERTIES
  ExecutedSettles
CHECK_DEADLOCK FALSE
