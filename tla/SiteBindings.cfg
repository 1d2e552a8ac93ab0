CONSTANTS
    Sites = {1, 2}
    Fingerprints = {f1}
    Handlers = {h1, h2}
    NoOne = NoOne
    Conns = {}
    NoConn = NoConn
    MaxGen = 1
    Limit = 1
    MaxFaults = 0
SPECIFICATION Spec
SYMMETRY SessionSymmetry
INVARIANTS
    FingerprintBoundOnce
    DispatchesAreSerial
PROPERTIES
    NoOfferAfterRevoke
CHECK_DEADLOCK FALSE
