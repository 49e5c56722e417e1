SPECIFICATION SequenceSpec
CONSTANTS
    Rows = {r1, r2, r3}
    MaxVersion = 4
INVARIANT OlderRefused
CHECK_DEADLOCK FALSE
