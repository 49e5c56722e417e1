SPECIFICATION Spec
CONSTANTS
    Trees = {k1, k2}
    Commitments = {x1, x2}
    Calls = {c1, c2}
    RegisterTTL = 2
    Margin = 1
    Quarantine = 1
    MaxTime = 4
    MaxAttempts = 2
    MaxHandles = 2
    None = None
SYMMETRY MCSymmetry
INVARIANTS
    SentOnce
    OneCommitment
    OneLiveRegistration
    Reconcilable
    PrepareAgrees
CHECK_DEADLOCK FALSE
