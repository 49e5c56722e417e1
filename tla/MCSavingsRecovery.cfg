\* Passkey sessions and transitions together: racing challenges, counters and
\* envelope installations, fee bumps, second destinations, retries, restarts.
SPECIFICATION Spec
CONSTANTS
  t1 = t1
  t2 = t2
  t3 = t3
  Vaults = {v1}
  Outpoints = {k1}
  Txs = {t1, t2, t3}
  PhonePath = {t3}
  VaultOf <- MCVaultOf
  KeyOf <- MCKeyOf
  DestOf <- MCDestOf
  ChallengeIds = {i1, i2}
  Envelopes = {e1, e2}
  Payloads = {m1}
  MaxChallenges = 1
  ChallengeTTL = 1
  MaxTransitions = 2
  RateWindow = 1
  Calls = {c1, c2}
  Counts = {0, 1}
  MaxTime = 1
  None = None
CONSTRAINT MCBound
SYMMETRY MCSymmetry
INVARIANTS
  ChallengeUsedOnce
  CounterUsedOnce
  InstalledKept
  OneDestPerOutpoint
  WriteAheadHeld
  RateKept
CHECK_DEADLOCK FALSE
