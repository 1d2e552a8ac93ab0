CONSTANTS
    Ops = {1, 2}
    t1 = t1
    t2 = t2
    Targets = {t1, t2}
    RowStates = {"Queued"}
    MaxRequests = 3
    MaxFaults = 1
SYMMETRY TargetSymmetry
SPECIFICATION Spec
INVARIANTS
    OfferNeverLost
    OneLiveIdPerTarget
