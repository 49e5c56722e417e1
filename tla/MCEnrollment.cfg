\* A token file and two open sessions; three ceremonies, two racing finishes.
SPECIFICATION Spec
CONSTANTS
  SessionTokens = {s1, s2}
  FileTokens = {f1}
  Ids = {v1, v2, v3}
  Requests = {r1, r2}
  Policies = {p1, p2}
  Calls = {c1, c2}
  Window = 2
  SessionTTL = 1
  PendingTTL = 1
  Retention = 0
  RateWindow = 1
  MaxRecent = 1
  MaxActive = 2
  MaxTime = 4
  None = None
SYMMETRY MCSymmetry
INVARIANTS
  OneVaultPerInvite
  LastCeremonyWins
  AnswersExact
CHECK_DEADLOCK FALSE
