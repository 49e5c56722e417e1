\* Two requests in flight, restarts for two networks, and probes over several times to live.
SPECIFICATION FairSpec
CONSTANTS
    Networks = {"mutinynet", "mainnet"}
    Slots = {s1, s2}
    UnlinkKey = TRUE
    TTL = 2
    MaxClock = 5
INVARIANTS
    
    ServedWhole
    ServesOwnDatabase
    ReadinessFresh
PROPERTIES
    SignalledEnds
