CONSTANTS
    Sites = {1, 2}
    Fingerprints = {f1}
    Handlers = {h1}
    NoOne = NoOne
    Conns = {c1}
    NoConn = NoConn
    MaxGen = 2
    Limit = 1
    MaxFaults = 0
SPECIFICATION Spec
PROPERTIES
    RefusedIsNotInForce
CHECK_DEADLOCK FALSE
