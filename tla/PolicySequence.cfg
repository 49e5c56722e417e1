SPECIFICATION SequenceSpec
CONSTANTS
    Rows = {r1, r2, r3}
    MaxVersion = 4
INVARIANTS
    TypeOK
    SequenceCovers
    CommittedServed
CHECK_DEADLOCK FALSE
