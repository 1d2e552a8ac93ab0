CONSTANTS
    Sites = {1}
    Fingerprints = {f1}
    Handlers = {h1}
    NoOne = NoOne
    Conns = {c1, c2}
    NoConn = NoConn
    MaxGen = 4
    Limit = 2
    MaxFaults = 2
SPECIFICATION FairSpec
INVARIANTS
    TypeOK
    RevokedIsOffline
    EntryHasTask
    RunningIsRegistered
PROPERTIES
    RevokedSiteConverges
CHECK_DEADLOCK FALSE
