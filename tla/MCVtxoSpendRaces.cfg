\* Races: two handlers in flight over two operations of one vault.
SPECIFICATION Spec
CONSTANTS
  Vaults = {v1}
  OpIds = {o1, o2}
  Coins = {x1, x2}
  CoinsOf <- OneVaultCoins
  Requests = {r1, r2}
  Checkpoints = {k1}
  FeePolicies = {f1}
  Allowance <- OneVaultAllowance
  AllowanceWindow = 2
  ReserveTimeout = 1
  None = None
  Calls = {c1, c2}
  Amounts = {1}
  Fees = {0}
  Counts = {1, 2}
  MaxTime = 1
SYMMETRY RaceSymmetry
INVARIANTS
  TypeOK
  OneLifecyclePerVault
  ReleasedIsDurable
  NoCoinSignedTwice
  CounterSignsOneOperation
PROPERTIES
  ImplementsContract
CHECK_DEADLOCK FALSE
