\* Allowance: successive payments of one vault over several windows.
SPECIFICATION Spec
CONSTANTS
  Vaults = {v1}
  OpIds = {o1, o2}
  Coins = {x1, x2}
  CoinsOf <- OneVaultCoins
  Requests = {r1}
  Checkpoints = {k1}
  FeePolicies = {f1}
  Allowance <- OneVaultAllowance
  AllowanceWindow = 2
  ReserveTimeout = 1
  None = None
  Calls = {c1}
  Amounts = {1, 2}
  Fees = {1}
  Counts = {0}
  MaxTime = 5
SYMMETRY RaceSymmetry
INVARIANTS
  AllowanceKept
CHECK_DEADLOCK FALSE
