\* A fee bump, then an identical retry of the bumped transition.
SPECIFICATION Spec
CONSTANTS
  t1 = t1
  t2 = t2
  t3 = t3
  Vaults = {v1}
  Outpoints = {k1}
  Txs = {t1, t2}
  PhonePath = {}
  VaultOf <- MCVaultOf
  KeyOf <- MCKeyOf
  DestOf <- MCDestOf
  ChallengeIds = {i1}
  Envelopes = {e1}
  Payloads = {m1}
  MaxChallenges = 1
  ChallengeTTL = 2
  MaxTransitions = 3
  RateWindow = 2
  Calls = {c1}
  Counts = {1}
  MaxTime = 1
  None = None
INVARIANTS
  IdenticalRetryServed
CHECK_DEADLOCK FALSE
